---- MODULE Spec2Model ----
(***************************************************************************)
(* Model of the miko avatar front end: the WebSocket animation client      *)
(* (src/unnamed/part_000, first class), the animation controller           *)
(* (animation-controller.js) and the Live2D render target                  *)
(* (src/unnamed/part_001 and live2d-integration.js).                       *)
(*                                                                         *)
(* JavaScript is single threaded: every handler (a DOM/WebSocket event, a  *)
(* timer callback, a promise continuation) runs to completion, so each     *)
(* handler is one atomic action.  Sequential code inside a handler is      *)
(* modelled by operators that take the world record w (the objects the     *)
(* handler can touch) and return the world after the call.                 *)
(*                                                                         *)
(* Times are in milliseconds, parameter values in thousandths and          *)
(* intensities in ten-thousandths, so that the arithmetic of the code      *)
(* stays within the integers.                                              *)
(***************************************************************************)
EXTENDS Integers, Sequences, FiniteSets, TLC

VARIABLES
    client,     \* fields of WebSocketAnimationClient
    sockets,    \* the WebSocket objects the client has created
    timers,     \* pending setTimeout / setInterval callbacks
    live2d,     \* fields of Live2DIntegration, the render target
    pixi,       \* fields of Live2DIntegration of live2d-integration.js
    controller, \* fields of AnimationController and its calls in flight
    mapping,    \* fields of Live2DParameterMapping
    now,        \* Date.now()
    obs,        \* what an observer has seen of the handler that ran last
    op          \* the handler that ran last

vars == <<client, sockets, timers, live2d, pixi, controller, mapping, now, obs, op>>

(***************************************************************************)
(* Program constants                                                        *)
(***************************************************************************)
maxReconnectAttempts == 5
reconnectDelay == 1000
maxReconnectDelay == 30000
MaxConsecutiveErrors == 5
NormalClosure == 1000
maxLatencyMeasurements == 20
minAnimationInterval == 500
latencyMaxAge == 300000
maxHistoryLength == 10
transitionSteps == 20

\* Close codes the browser itself puts in a close event: no code given to
\* close(), and a connection that failed or was lost.
BrowserCloseCode == [noStatus |-> 1005, abnormal |-> 1006]

(***************************************************************************)
(* Bounds of the model                                                      *)
(***************************************************************************)
MaxSockets == 2
MaxReconnectTimers == 2
MaxLeakedTimeouts == 1
MaxPingIntervals == 2
MaxErrorRun == 6
MaxQueue == 2
MaxPending == 3
MaxMessageTimers == 1
MaxTicks == 8
MaxCalls == 2
MaxRequests == 3
MaxLatencySamples == 1
MaxResponses == 2
MaxFastPongs == 2
MaxPlays == 2

SocketIds == 1..MaxSockets
CallIds == 1..MaxCalls

\* The clock advances in steps of half the throttle interval and starts
\* late enough for the first request to pass the throttle, as Date.now() does.
TickMs == minAnimationInterval \div 2
StartTime == 2 * minAnimationInterval
MaxTime == StartTime + MaxTicks * TickMs

Min(a, b) == IF a < b THEN a ELSE b
Max(a, b) == IF a > b THEN a ELSE b

RECURSIVE Pow2(_)
Pow2(n) == IF n <= 0 THEN 1 ELSE 2 * Pow2(n - 1)

(***************************************************************************)
(* Values of JavaScript.  The tables of the code are object literals, so    *)
(* table[name] finds, for a name the table does not hold itself, the member *)
(* of that name the table inherits from Object.prototype: a function, or    *)
(* for "__proto__" the prototype, an object.  Both are truthy.              *)
(***************************************************************************)
ObjectPrototype ==
    {"constructor", "toString", "toLocaleString", "valueOf", "hasOwnProperty",
     "isPrototypeOf", "propertyIsEnumerable", "__proto__", "__defineGetter__",
     "__defineSetter__", "__lookupGetter__", "__lookupSetter__"}

\* table[name] is a member the table inherits; names are the names the table holds itself.
Inherited(names, name) == name \notin names /\ name \in ObjectPrototype

\* An inherited member called as table[name](argument) with one argument that
\* is an object: "__proto__" is no function, and __defineGetter__ and
\* __defineSetter__ ask for a function as their second argument.
InheritedCallThrows(name) == name \in {"__proto__", "__defineGetter__", "__defineSetter__"}

\* An inherited member where the code expects a name: the value is carried
\* as the string it converts to, which is the property key it is used as.
InheritedAsString(name) ==
    CASE name = "__proto__" -> "[object Object]"
      [] name = "constructor" -> "function Object() { [native code] }"
      [] OTHER -> "function " \o name \o "() { [native code] }"

\* s.toLowerCase(), for the names with capitals the model uses.
toLowerCase(s) ==
    CASE s = "toString" -> "tostring"
      [] s = "toLocaleString" -> "tolocalestring"
      [] s = "valueOf" -> "valueof"
      [] s = "hasOwnProperty" -> "hasownproperty"
      [] s = "isPrototypeOf" -> "isprototypeof"
      [] s = "propertyIsEnumerable" -> "propertyisenumerable"
      [] s = "__defineGetter__" -> "__definegetter__"
      [] s = "__defineSetter__" -> "__definesetter__"
      [] s = "__lookupGetter__" -> "__lookupgetter__"
      [] s = "__lookupSetter__" -> "__lookupsetter__"
      [] s = "Positive" -> "positive"
      [] OTHER -> s

\* null and undefined where the code holds a string, and where it holds an object.
Null == "null"
Undefined == "undefined"
NullObject == [isNull |-> TRUE]
UndefinedObject == [isUndefined |-> TRUE]

(***************************************************************************)
(* Inbound messages.  A message is described by what handleMessage() and    *)
(* the handlers look at: whether the text parses, whether the value parsed  *)
(* is an object, its type ("" when missing, empty or no string), its event  *)
(* and, for connection_established, its current_animation.  An event is     *)
(* described by whether it is there, which fields it has, its event_type    *)
(* and its sequence_id (0 when it has none).  The event_type "object_ok" is *)
(* an object with a type and a value, "object_bad" an object without.       *)
(* The data of an event and the payload of a message, its other             *)
(* properties, are records of the properties they have: durations and       *)
(* times in ms, values in thousandths, intensities and factors in           *)
(* ten-thousandths.                                                         *)
(***************************************************************************)
requiredFields == {"event_type", "timestamp", "data"}

\* An object without a property of its own: {}.
NoParams == [paramId \in {} |-> 0]

\* object[property], or the given value for a property the object has not:
\* what a default stands in for, or what undefined comes to.
Get(object, property, otherwise) ==
    IF property \in DOMAIN object THEN object[property] ELSE otherwise

\* The data of the events the server is taken to send where a claim does
\* not ask for other data.
ExpressionChangeData == [expression |-> "happy", intensity |-> 8000, duration |-> 1000]
MouthSyncStartData == [audio_duration |-> 1000]
MouthSyncStopData == [return_to_neutral |-> TRUE]
ParameterUpdateData == [ParamMouthOpenY |-> 1500]
MouthSyncUpdateData == [mouth_open |-> 600, mouth_form |-> 200, audio_level |-> 50]
SyncTimingData == [audio_start_time |-> 0, audio_duration |-> 1000]

DefaultData(eventType) ==
    CASE eventType = "expression_change" -> ExpressionChangeData
      [] eventType = "mouth_sync_start" -> MouthSyncStartData
      [] eventType = "mouth_sync_stop" -> MouthSyncStopData
      [] eventType = "parameter_update" -> ParameterUpdateData
      [] eventType = "mouth_sync_update" -> MouthSyncUpdateData
      [] eventType = "sync_timing" -> SyncTimingData
      [] OTHER -> NoParams

\* The payload of the messages the server is taken to send.
DefaultPayload(type) ==
    CASE type = "connection_established" -> [client_id |-> "client-1"]
      [] type = "sync_timing" -> [data |-> SyncTimingData]
      [] OTHER -> NoParams

NoEvent == [present |-> FALSE, fields |-> {}, event_type |-> "", sequence_id |-> 0,
            data |-> NoParams]

EventWith(fields, eventType, sequenceId, data) ==
    [present |-> TRUE, fields |-> fields, event_type |-> eventType, sequence_id |-> sequenceId,
     data |-> data]

Event(fields, eventType, sequenceId) ==
    EventWith(fields, eventType, sequenceId, DefaultData(eventType))

MessageWith(parses, isObject, type, event, current, payload) ==
    [parses |-> parses, isObject |-> isObject, type |-> type, event |-> event,
     current_animation |-> current, payload |-> payload]

Message(parses, isObject, type, event, current) ==
    MessageWith(parses, isObject, type, event, current, DefaultPayload(type))

EventTypes == {"expression_change", "mouth_sync_start", "mouth_sync_stop",
               "parameter_update", "no_such_event", "object_ok"}

WellFormedEvents ==
    {Event(requiredFields, t, 1) : t \in EventTypes}
    \cup {Event(requiredFields, "expression_change", 0)}

MalformedEvents ==
    {NoEvent, Event(requiredFields, "object_bad", 1)}
    \cup {Event(requiredFields \ {f}, "expression_change", 1) : f \in requiredFields}

AnimationEventMessages ==
    {Message(TRUE, TRUE, "animation_event", e, NoEvent) : e \in WellFormedEvents \cup MalformedEvents}

\* Text that is no JSON, JSON that is no object, an object without a type.
BrokenMessages ==
    {Message(FALSE, FALSE, "", NoEvent, NoEvent),
     Message(TRUE, FALSE, "", NoEvent, NoEvent),
     Message(TRUE, TRUE, "", NoEvent, NoEvent)}

\* Messages of the types without an event, of a type no handler is
\* registered for and of two types that name members of Object.prototype.
PlainMessages ==
    {Message(TRUE, TRUE, t, NoEvent, NoEvent) :
        t \in {"heartbeat", "pong", "sync_timing", "no_such_type", "constructor", "__proto__"}}

ConnectionEstablishedMessages ==
    {Message(TRUE, TRUE, "connection_established", NoEvent, e) :
        e \in {NoEvent, Event(requiredFields, "expression_change", 0),
               Event({"event_type"}, "expression_change", 1)}}

\* No message: what a handler other than ws.onmessage has received.
NoMessage == Message(FALSE, FALSE, "", NoEvent, NoEvent)

\* lastReceivedMessage before the first message: the constructor sets none.
NoLastMessage == [timestamp |-> 0, data |-> NoMessage]

Messages ==
    AnimationEventMessages \cup BrokenMessages \cup PlainMessages \cup ConnectionEstablishedMessages

\* The messages the connection life cycle is explored with: one that fails
\* and one that is handled; they touch no animation.
LifecycleMessages ==
    {Message(FALSE, FALSE, "", NoEvent, NoEvent),
     Message(TRUE, TRUE, "heartbeat", NoEvent, NoEvent)}

(***************************************************************************)
(* The world a handler can touch.                                           *)
(***************************************************************************)
\* The fields of obs other than terminal, userClosed, delays, requests and
\* resetAt (the time of the last resetContext(), 0 before the first) describe
\* what the handler now running has dispatched, sent, scheduled, opened,
\* invoked and returned, so every handler starts with all of them empty;
\* thrown is an error the handler let out, rejected a promise it rejected
\* and nothing handles.
NoObservation == [events |-> {}, sent |-> <<>>, scheduled |-> <<>>, attempt |-> FALSE,
                  invoked |-> {}, received |-> NoMessage, returned |-> <<>>, call |-> 0,
                  intermediate |-> FALSE, finished |-> <<>>, determined |-> <<>>,
                  args |-> <<>>, dispatched |-> <<>>, thrown |-> FALSE, rejected |-> FALSE,
                  shifted |-> <<>>]

World == [client |-> client, sockets |-> sockets, timers |-> timers, live2d |-> live2d,
          pixi |-> pixi, controller |-> controller, mapping |-> mapping, now |-> now,
          obs |-> [f \in DOMAIN obs |-> IF f \in DOMAIN NoObservation
                                        THEN NoObservation[f] ELSE obs[f]]]

Commit(w) ==
    /\ client' = w.client
    /\ sockets' = w.sockets
    /\ timers' = w.timers
    /\ live2d' = w.live2d
    /\ pixi' = w.pixi
    /\ controller' = w.controller
    /\ mapping' = w.mapping
    /\ now' = w.now
    /\ obs' = w.obs

\* setTimeout(callback, delay): kind and arg name the callback and what it closes over.
setTimeout(w, delay, kind, arg) ==
    [w EXCEPT !.timers.pending = Append(@, [due |-> w.now + delay, kind |-> kind, arg |-> arg])]

\* dispatchEvent(eventName, detail): a CustomEvent on the document.
dispatchEvent(w, eventName) == [w EXCEPT !.obs.events = @ \cup {eventName}]

\* A slot whose WebSocket object can deliver no further event.
FreeSlot(w, i) == w.sockets[i].readyState \in {"UNUSED", "CLOSED"}

NewSlot(w) == CHOOSE i \in SocketIds : FreeSlot(w, i) /\ \A j \in SocketIds : FreeSlot(w, j) => i <= j

CurrentState(w) == IF w.client.ws = 0 THEN "NONE" ELSE w.sockets[w.client.ws].readyState

(***************************************************************************)
(* WebSocket.close(code) of the browser: a socket that is still connecting  *)
(* fails (error event, then close event 1006); an open one runs the closing *)
(* handshake and its close event carries the code given (1005 when none).   *)
(***************************************************************************)
SocketClose(w, s, code) ==
    IF w.sockets[s].readyState = "CONNECTING"
    THEN [w EXCEPT !.sockets[s] = [readyState |-> "CLOSING", closeCode |-> BrowserCloseCode.abnormal]]
    ELSE IF w.sockets[s].readyState = "OPEN"
    THEN [w EXCEPT !.sockets[s] = [readyState |-> "CLOSING", closeCode |-> code]]
    ELSE w

\* clearTimeout(this.connectionTimeout): only the timer the field refers to.
ClearConnectionTimeout(w) == [w EXCEPT !.timers.timeoutArmed = FALSE]

(***************************************************************************)
(* scheduleReconnect()                                                      *)
(***************************************************************************)
\* A faulty scheduleReconnect(), which gives up one attempt too late.
scheduleReconnect_LateStop(w) ==
    IF w.client.reconnectAttempts > maxReconnectAttempts
    THEN dispatchEvent([w EXCEPT !.obs.terminal = TRUE], "websocketReconnectFailed")
    ELSE LET n == w.client.reconnectAttempts + 1
             delay == Min(reconnectDelay * Pow2(n - 1), maxReconnectDelay)
         IN [w EXCEPT !.client.reconnectAttempts = n,
                      !.timers.reconnect = @ + 1,
                      !.obs.delays = Append(@, delay),
                      !.obs.scheduled = Append(@, delay)]

scheduleReconnect(w) ==
    IF w.client.reconnectAttempts >= maxReconnectAttempts
    THEN dispatchEvent([w EXCEPT !.obs.terminal = TRUE], "websocketReconnectFailed")
    ELSE LET n == w.client.reconnectAttempts + 1
             delay == Min(reconnectDelay * Pow2(n - 1), maxReconnectDelay)
         IN [w EXCEPT !.client.reconnectAttempts = n,
                      !.timers.reconnect = @ + 1,
                      !.obs.delays = Append(@, delay),
                      !.obs.scheduled = Append(@, delay)]

(***************************************************************************)
(* handleError(error)                                                       *)
(***************************************************************************)
handleError(w) ==
    LET w1 == dispatchEvent(w, "websocketError")
    IN IF w1.client.isConnected /\ ~w1.client.intentionalClose
       THEN scheduleReconnect(w1)
       ELSE w1

(***************************************************************************)
(* handleClose(event)                                                       *)
(***************************************************************************)
handleClose(w, code) ==
    LET w1 == dispatchEvent([w EXCEPT !.client.isConnected = FALSE,
                                      !.client.clientId = Null],
                            "websocketDisconnected")
    IN IF code # NormalClosure THEN scheduleReconnect(w1) ELSE w1

(***************************************************************************)
(* handleOpen(event), with startLatencyMeasurement()                        *)
(***************************************************************************)
handleOpen(w) ==
    dispatchEvent([w EXCEPT !.client.isConnected = TRUE,
                            !.client.reconnectAttempts = 0,
                            !.timers.ping = @ + 1,
                            !.obs.delays = <<>>,
                            !.obs.terminal = FALSE],
                  "websocketConnected")

(***************************************************************************)
(* connect()                                                                *)
(***************************************************************************)
connect(w) ==
    IF CurrentState(w) = "CONNECTING"
    THEN w
    ELSE LET n == NewSlot(w)
         IN [w EXCEPT !.client.intentionalClose = FALSE,
                      !.client.ws = n,
                      !.sockets[n] = [readyState |-> "CONNECTING", closeCode |-> 0],
                      !.timers.timeoutLeaked = IF w.timers.timeoutArmed THEN @ + 1 ELSE @,
                      !.timers.timeoutArmed = TRUE,
                      !.obs.attempt = TRUE]

\* The model can follow connect() only while it has a socket slot left.
CanConnect(w) == CurrentState(w) = "CONNECTING" \/ \E i \in SocketIds : FreeSlot(w, i)

(***************************************************************************)
(* reconnect() and disconnect()                                             *)
(***************************************************************************)
reconnectClose(w) ==
    LET w1 == IF w.client.ws # 0 THEN SocketClose(w, w.client.ws, BrowserCloseCode.noStatus) ELSE w
    IN [w1 EXCEPT !.client.reconnectAttempts = 0,
                  !.obs.delays = <<>>,
                  !.obs.userClosed = FALSE,
                  !.obs.terminal = FALSE]

reconnect(w) == connect(reconnectClose(w))

disconnect(w) ==
    LET w1 == IF w.client.ws # 0 THEN SocketClose(w, w.client.ws, NormalClosure) ELSE w
    IN [w1 EXCEPT !.client.isConnected = FALSE,
                  !.client.clientId = Null,
                  !.obs.userClosed = TRUE]

(***************************************************************************)
(* The connection timeout callback set by connect()                         *)
(***************************************************************************)
connectionTimeoutCallback(w) ==
    IF CurrentState(w) = "CONNECTING"
    THEN handleError(SocketClose(w, w.client.ws, 4000))
    ELSE w

(***************************************************************************)
(* Live2DIntegration (src/unnamed/part_001)                                 *)
(***************************************************************************)
Params == {"ParamAngleY", "ParamEyeLOpen", "ParamEyeROpen", "ParamEyeBallY", "ParamBrowLY",
           "ParamBrowRY", "ParamMouthForm", "ParamMouthOpenY"}

\* initializeParameters(): the defaults of the parameters the model carries.
defaultParams == [p \in Params |-> IF p \in {"ParamEyeLOpen", "ParamEyeROpen"} THEN 1000 ELSE 0]

expressionMap ==
    [happy     |-> [ParamMouthForm |-> 1000, ParamEyeLOpen |-> 1000, ParamEyeROpen |-> 1000],
     sad       |-> [ParamMouthForm |-> -800, ParamEyeLOpen |-> 300, ParamEyeROpen |-> 300],
     angry     |-> [ParamMouthForm |-> -500, ParamBrowLY |-> -800, ParamBrowRY |-> -800],
     surprised |-> [ParamMouthOpenY |-> 800, ParamEyeLOpen |-> 1200, ParamEyeROpen |-> 1200],
     neutral   |-> [ParamMouthForm |-> 0, ParamEyeLOpen |-> 1000, ParamEyeROpen |-> 1000],
     speak     |-> [ParamMouthOpenY |-> 600, ParamMouthForm |-> 300]]

\* A faulty clamp, which lets every value through.
Clamp_Unclamped(low, high, value) == value

\* Math.max(low, Math.min(high, value))
Clamp(low, high, value) ==
    IF value > high THEN high ELSE IF value < low THEN low ELSE value

\* The intensity 1.0: intensities are counted in ten-thousandths.
IntensityOne == 10000

\* value * intensity, a value in thousandths; the product is kept to the thousandth.
Scale(value, intensity) == (value * intensity) \div IntensityOne

\* The object triggerAnimation() builds; duration is already in milliseconds.
Animation(expression, intensity, duration) ==
    [expression |-> expression, intensity |-> intensity, duration |-> duration]

\* triggerAnimation(expression, intensity, duration): the animation is queued
\* and the promise returned resolves, after the duration, for the caller
\* that kind and arg name.
triggerAnimation(w, expression, intensity, duration, kind, arg) ==
    setTimeout([w EXCEPT !.live2d.animationQueue =
                              Append(@, Animation(expression, intensity, duration))],
               duration, kind, arg)

setTargets(w, params, intensity) ==
    [w EXCEPT !.live2d.parameterTargets =
        [p \in Params |-> IF p \in DOMAIN params THEN Scale(params[p], intensity) ELSE @[p]]]

resetToNeutral(w) ==
    [setTargets(w, expressionMap["neutral"], IntensityOne) EXCEPT !.live2d.currentExpression = "neutral"]

\* executeAnimation(animation).  For a member expressionMap inherits,
\* expressionData is truthy and has no params: Object.keys() throws after
\* isAnimating and currentExpression were set.
executeAnimation(w, animation) ==
    LET w1 == [w EXCEPT !.live2d.isAnimating = TRUE,
                        !.live2d.currentExpression = animation.expression]
    IN IF Inherited(DOMAIN expressionMap, animation.expression)
       THEN [w1 EXCEPT !.obs.thrown = TRUE]
       ELSE IF animation.expression \notin DOMAIN expressionMap
       THEN [w1 EXCEPT !.live2d.isAnimating = FALSE]
       ELSE setTimeout(setTargets(w1, expressionMap[animation.expression], animation.intensity),
                       animation.duration, "animationEnd", 0)

\* The callback executeAnimation() sets for the end of the animation.
animationEnd(w) == [resetToNeutral(w) EXCEPT !.live2d.isAnimating = FALSE]

processAnimationQueue(w) ==
    IF Len(w.live2d.animationQueue) > 0 /\ ~w.live2d.isAnimating
    THEN executeAnimation([w EXCEPT !.live2d.animationQueue = Tail(@)],
                          Head(w.live2d.animationQueue))
    ELSE w

\* setParameter(paramId, value, smooth = true): the target is set with and
\* without smoothing; the values shown, parameterCurrent, are not followed.
setParameter(w, paramId, value, smooth) ==
    [w EXCEPT !.live2d.parameterTargets[paramId] = value]

\* Math.sin(x), both in ten-thousandths: x is brought into [-pi/2, pi/2]
\* and the series of the sine is summed up to its fourth term.
sin(x) ==
    LET twoPi == 62832
        a == x % twoPi
        b == IF a > twoPi \div 2 THEN a - twoPi ELSE a
        c == IF b > twoPi \div 4 THEN twoPi \div 2 - b
             ELSE IF b < -(twoPi \div 4) THEN -(twoPi \div 2) - b
             ELSE b
        c2 == (c * c) \div 10000
        t3 == (c2 * c) \div 60000
        t5 == (t3 * c2) \div 200000
        t7 == (t5 * c2) \div 420000
    IN c - t3 + t5 - t7

\* startMouthSync(audioElement).  "started": the analyser is created and
\* connected; "unsupported": the page has no AudioContext, which throws
\* before anything is set; "sourceFails": createMediaElementSource() throws,
\* as it does for an element that has a source already, after the analyser
\* was replaced.  The function catches what is thrown.
startMouthSync(w, outcome) ==
    CASE outcome = "started" -> [w EXCEPT !.live2d.analyser = TRUE, !.live2d.isSpeaking = TRUE]
      [] outcome = "sourceFails" -> [w EXCEPT !.live2d.analyser = TRUE]
      [] OTHER -> w

\* stopMouthSync()
stopMouthSync(w) ==
    [w EXCEPT !.live2d.isSpeaking = FALSE,
              !.live2d.parameterTargets.ParamMouthOpenY = 0,
              !.live2d.parameterTargets.ParamMouthForm = 0]

\* updateMouthSync(), for the average of the frequency data the analyser
\* gives, 0 to 255.
updateMouthSync(w, average) ==
    IF ~w.live2d.analyser
    THEN w
    ELSE LET mouthOpen == Min((average * 1000) \div 128, 1000)
         IN [w EXCEPT !.live2d.parameterTargets.ParamMouthOpenY = (mouthOpen * 8) \div 10,
                      !.live2d.parameterTargets.ParamMouthForm =
                          (sin(w.now * 100) * 2 * mouthOpen) \div 100000]

\* update(): the smoothing and the breathing write parameterCurrent only,
\* which is not followed; what executeAnimation() throws leaves update().
update(w, average) ==
    LET w1 == processAnimationQueue(w)
    IN IF ~w1.obs.thrown /\ w1.live2d.isSpeaking THEN updateMouthSync(w1, average) ELSE w1

\* render, the callback of requestAnimationFrame(): it asks for the next
\* frame after update() and draw(), so not when update() has thrown.
render(w, average) ==
    LET w1 == update(w, average)
    IN IF w1.obs.thrown THEN [w1 EXCEPT !.live2d.rendering = FALSE] ELSE w1

\* standardParameters of Live2DParameterMapping, in thousandths.
standardParameters ==
    [ParamAngleX     |-> [min |-> -30000, max |-> 30000, default |-> 0],
     ParamAngleY     |-> [min |-> -30000, max |-> 30000, default |-> 0],
     ParamAngleZ     |-> [min |-> -30000, max |-> 30000, default |-> 0],
     ParamEyeLOpen   |-> [min |-> 0, max |-> 1000, default |-> 1000],
     ParamEyeROpen   |-> [min |-> 0, max |-> 1000, default |-> 1000],
     ParamEyeBallX   |-> [min |-> -1000, max |-> 1000, default |-> 0],
     ParamEyeBallY   |-> [min |-> -1000, max |-> 1000, default |-> 0],
     ParamBrowLY     |-> [min |-> -1000, max |-> 1000, default |-> 0],
     ParamBrowRY     |-> [min |-> -1000, max |-> 1000, default |-> 0],
     ParamMouthForm  |-> [min |-> -1000, max |-> 1000, default |-> 0],
     ParamMouthOpenY |-> [min |-> 0, max |-> 1000, default |-> 0],
     ParamBodyAngleX |-> [min |-> -10000, max |-> 10000, default |-> 0],
     ParamBodyAngleY |-> [min |-> -10000, max |-> 10000, default |-> 0],
     ParamBodyAngleZ |-> [min |-> -10000, max |-> 10000, default |-> 0],
     ParamBreath     |-> [min |-> 0, max |-> 1000, default |-> 0],
     Param12         |-> [min |-> 0, max |-> 1000, default |-> 0]]

\* The value of a parameter that is NaN.  It stands outside every value a
\* parameter takes, and no arithmetic is done on it: what the code computes
\* from NaN is NaN again, and NaN is falsy.
NotANumber == -999999999

\* The value of a parameter that is no number but a text: an inherited member
\* added to NaN, which is the member as a string followed by "NaN".
TextAndNaN == -999999998

\* Math.max(paramDef.min, Math.min(paramDef.max, value)) for the paramDef
\* that standardParameters[paramId] finds.  A member standardParameters
\* inherits is truthy and has neither min nor max, which gives NaN.
clampToBounds(paramId, value) ==
    IF Inherited(DOMAIN standardParameters, paramId) \/ value = NotANumber
    THEN NotANumber
    ELSE Clamp(standardParameters[paramId].min, standardParameters[paramId].max, value)

\* standardParameters[paramId] is truthy: the table holds or inherits it.
hasParamDef(paramId) ==
    paramId \in DOMAIN standardParameters \/ Inherited(DOMAIN standardParameters, paramId)

\* validateParameter(paramId, value) of Live2DParameterMapping: the value of
\* a parameter it does not know is returned as it is.
validateParameter(paramId, value) ==
    IF hasParamDef(paramId) THEN clampToBounds(paramId, value) ELSE value

(***************************************************************************)
(* Live2DParameterMapping (live2d-parameter-mapping.js).  this.expressions *)
(* is a function from the names to the parameter maps, values in           *)
(* thousandths.                                                            *)
(***************************************************************************)
expressions ==
    [neutral    |-> [ParamMouthForm |-> 0, ParamEyeLOpen |-> 1000, ParamEyeROpen |-> 1000,
                     ParamBrowLY |-> 0, ParamBrowRY |-> 0, ParamMouthOpenY |-> 0,
                     ParamEyeBallX |-> 0, ParamEyeBallY |-> 0],
     happy      |-> [ParamMouthForm |-> 800, ParamEyeLOpen |-> 600, ParamEyeROpen |-> 600,
                     ParamBrowLY |-> 300, ParamBrowRY |-> 300, ParamMouthOpenY |-> 200,
                     ParamEyeBallY |-> -100],
     sad        |-> [ParamMouthForm |-> -600, ParamEyeLOpen |-> 800, ParamEyeROpen |-> 800,
                     ParamBrowLY |-> -500, ParamBrowRY |-> -500, ParamMouthOpenY |-> 0,
                     ParamEyeBallY |-> 200, ParamAngleZ |-> -2000],
     angry      |-> [ParamMouthForm |-> -400, ParamEyeLOpen |-> 400, ParamEyeROpen |-> 400,
                     ParamBrowLY |-> -800, ParamBrowRY |-> -800, ParamMouthOpenY |-> 100,
                     ParamEyeBallX |-> 0, ParamEyeBallY |-> -200],
     surprised  |-> [ParamMouthForm |-> 0, ParamEyeLOpen |-> 1200, ParamEyeROpen |-> 1200,
                     ParamBrowLY |-> 600, ParamBrowRY |-> 600, ParamMouthOpenY |-> 800,
                     ParamEyeBallY |-> -300],
     speak      |-> [ParamMouthOpenY |-> 600, ParamMouthForm |-> 200, ParamEyeLOpen |-> 1000,
                     ParamEyeROpen |-> 1000],
     blink      |-> [ParamEyeLOpen |-> 0, ParamEyeROpen |-> 0],
     wink_left  |-> [ParamEyeLOpen |-> 0, ParamEyeROpen |-> 1000, ParamMouthForm |-> 300],
     wink_right |-> [ParamEyeLOpen |-> 1000, ParamEyeROpen |-> 0, ParamMouthForm |-> 300]]

\* this.expressions[name].  mapping.expressions holds the properties of the
\* table itself and mapping.proto those of its prototype, none as long as
\* that is Object.prototype.  The lookup finds a parameter map of the table
\* ("own"), the prototype ("object"), a number the prototype holds, a function
\* of Object.prototype, or nothing.
Member(table, name) ==
    IF name \in DOMAIN table.expressions
    THEN [kind |-> "own", value |-> table.expressions[name]]
    ELSE IF name = "__proto__"
    THEN [kind |-> "object", value |-> table.proto]
    ELSE IF name \in DOMAIN table.proto
    THEN [kind |-> "number", value |-> table.proto[name]]
    ELSE IF name \in ObjectPrototype
    THEN [kind |-> "function", value |-> NoParams]
    ELSE [kind |-> "undefined", value |-> NoParams]

\* !member: nothing, the number 0 and NaN are falsy.
Falsy(member) ==
    member.kind = "undefined" \/ (member.kind = "number" /\ member.value \in {0, NotANumber})

\* The properties Object.keys(member) and {...member} see: those of a
\* parameter map; a number and a function have none.
OwnProperties(member) == IF member.kind \in {"own", "object"} THEN member.value ELSE NoParams

\* this.expressions[name] = params: the name "__proto__" sets the prototype
\* of the table and adds no property.
Assign(table, name, params) ==
    IF name = "__proto__"
    THEN [table EXCEPT !.proto = params]
    ELSE [table EXCEPT !.expressions = (name :> params) @@ @]

\* getExpressionParameters(expression, intensity): the object returned.
getExpressionParameters(w, expression, intensity) ==
    LET baseParams == Member(w.mapping, expression)
    IN IF Falsy(baseParams)
       THEN w.mapping.expressions["neutral"]
       ELSE [paramId \in DOMAIN OwnProperties(baseParams) |->
                LET baseValue == OwnProperties(baseParams)[paramId]
                    scaledValue == IF baseValue = NotANumber
                                   THEN NotANumber
                                   ELSE Scale(baseValue, intensity)
                IN IF hasParamDef(paramId)
                   THEN clampToBounds(paramId, scaledValue)
                   ELSE scaledValue]

\* Expression data: what exportExpression() returns and importExpression()
\* takes.  isNull is the value null, hasParameters an object with parameters.
ExpressionData(name, hasParameters, parameters, timestamp) ==
    [isNull |-> FALSE, name |-> name, hasParameters |-> hasParameters,
     parameters |-> parameters, timestamp |-> timestamp]

NullData == [isNull |-> TRUE, name |-> "", hasParameters |-> FALSE, parameters |-> NoParams,
             timestamp |-> 0]

\* exportExpression(expression): the object returned, a copy of the parameters.
exportExpression(w, expression) ==
    LET params == Member(w.mapping, expression)
    IN IF Falsy(params)
       THEN NullData
       ELSE ExpressionData(expression, TRUE, OwnProperties(params), w.now)

\* A faulty importExpression(), which validates the parameters as
\* createCustomExpression() does.
importExpression_Validated(w, expressionData) ==
    IF expressionData.isNull \/ expressionData.name = "" \/ ~expressionData.hasParameters
    THEN [w EXCEPT !.obs.thrown = TRUE]
    ELSE [w EXCEPT !.mapping =
                       Assign(@, expressionData.name,
                              [paramId \in DOMAIN expressionData.parameters |->
                                  validateParameter(paramId, expressionData.parameters[paramId])]),
                   !.obs.returned = <<TRUE>>]

\* importExpression(expressionData): it throws for data without a name or
\* without parameters (and for null), else it stores a copy and returns true.
importExpression(w, expressionData) ==
    IF expressionData.isNull \/ expressionData.name = "" \/ ~expressionData.hasParameters
    THEN [w EXCEPT !.obs.thrown = TRUE]
    ELSE [w EXCEPT !.mapping = Assign(@, expressionData.name, expressionData.parameters),
                   !.obs.returned = <<TRUE>>]

\* createCustomExpression(name, parameters)
createCustomExpression(w, name, parameters) ==
    LET validatedParams ==
            [paramId \in DOMAIN parameters |-> validateParameter(paramId, parameters[paramId])]
    IN [w EXCEPT !.mapping = Assign(@, name, validatedParams),
                 !.obs.returned = <<validatedParams>>]

\* The names of easingFunctions.
easingFunctions == {"linear", "easeInOut", "easeOut", "easeIn", "bounce"}

\* What easingFunc(t) comes to: the number num / den, a value that is no
\* number in the arithmetic that follows, or a TypeError.
Fraction(num, den) == [kind |-> "number", num |-> num, den |-> den]
NaN == [kind |-> "NaN", num |-> 0, den |-> 1]
TypeError == [kind |-> "TypeError", num |-> 0, den |-> 1]

\* easingFunctions.bounce(t) for t = num / den: 7.5625 is 121/16, 1/2.75 is
\* 4/11, and t is shifted by 6/11, 9/11 and 21/22.
bounce(num, den) ==
    IF 11 * num < 4 * den
    THEN Fraction(121 * num * num, 16 * den * den)
    ELSE IF 11 * num < 8 * den
    THEN Fraction((11 * num - 6 * den) * (11 * num - 6 * den) + 12 * den * den, 16 * den * den)
    ELSE IF 11 * num < 10 * den
    THEN Fraction((11 * num - 9 * den) * (11 * num - 9 * den) + 15 * den * den, 16 * den * den)
    ELSE Fraction((22 * num - 21 * den) * (22 * num - 21 * den) + 63 * den * den,
                  64 * den * den)

\* A member easingFunctions inherits, called as easingFunc(t) without this:
\* Object(t) wraps the number, which the arithmetic unwraps; isPrototypeOf(t)
\* is false, which counts as 0; toString() gives a string that is no number;
\* "__proto__" is no function, and the others throw for a this that is undefined.
inheritedEasing(easingType, num, den) ==
    CASE easingType = "constructor" -> Fraction(num, den)
      [] easingType = "isPrototypeOf" -> Fraction(0, den)
      [] easingType = "toString" -> NaN
      [] OTHER -> TypeError

\* (easingFunctions[easingType] || easingFunctions['linear'])(t) for
\* t = num / den in [0, 1]; a type without a function is linear.
easing(easingType, num, den) ==
    CASE easingType = "easeOut" -> Fraction(num * (2 * den - num), den * den)
      [] easingType = "easeIn" -> Fraction(num * num, den * den)
      [] easingType = "easeInOut" ->
           IF 2 * num < den
           THEN Fraction(2 * num * num, den * den)
           ELSE Fraction((4 * den - 2 * num) * num - den * den, den * den)
      [] easingType = "bounce" -> bounce(num, den)
      [] Inherited(easingFunctions, easingType) -> inheritedEasing(easingType, num, den)
      [] OTHER -> Fraction(num, den)

\* interpolateParameters(fromParams, toParams, progress, easingType) for the
\* progress num / den; the values are rounded down to thousandths, and a
\* value that is absent, 0 or NaN counts as 0 (|| 0).  A parameter only one
\* side holds under a name the other side inherits is read there as the
\* inherited member: as the value to start from it makes the sum a text, as
\* the value to reach it makes the sum NaN.  With a t
\* that is no number every value is NaN and value holds 0 in its place;
\* a TypeError of easingFunc leaves the call before anything is interpolated.
interpolateParameters(fromParams, toParams, num, den, easingType) ==
    LET t == easing(easingType, Clamp(0, den, num), den)
        allParams == DOMAIN fromParams \cup DOMAIN toParams
    IN [thrown |-> t.kind = "TypeError",
        isNaN |-> t.kind = "NaN",
        value |->
            IF t.kind = "TypeError"
            THEN NoParams
            ELSE [paramId \in allParams |->
                     LET fromValue == IF paramId \in DOMAIN fromParams
                                         /\ fromParams[paramId] # NotANumber
                                      THEN fromParams[paramId] ELSE 0
                         toValue == IF paramId \in DOMAIN toParams
                                       /\ toParams[paramId] # NotANumber
                                    THEN toParams[paramId] ELSE 0
                     IN IF Inherited(DOMAIN fromParams, paramId)
                        THEN TextAndNaN
                        ELSE IF Inherited(DOMAIN toParams, paramId)
                        THEN NotANumber
                        ELSE fromValue + ((toValue - fromValue) * t.num) \div t.den]]

\* Math.ceil(duration / 16.67)
frameCount(duration) == (duration * 100 + 1666) \div 1667

\* The values of i a loop from first to last runs through.
Frames(first, last) == [k \in 1..(last - first + 1) |-> first + k - 1]

\* createAnimationKeyframes(expression, duration, intensity) for a duration
\* above 0; the times are in microseconds.
createAnimationKeyframes(w, expression, duration, intensity) ==
    LET targetParams == getExpressionParameters(w, expression, intensity)
        neutralParams == getExpressionParameters(w, "neutral", 5000)
        count == frameCount(duration)
        time(i) == (i * duration * 1000) \div count
        easeInFrames == Frames(0, count \div 4)
        holdFrames == Frames((count + 3) \div 4, (3 * count) \div 4)
        easeOutFrames == Frames((3 * count + 3) \div 4, count)
    IN [k \in DOMAIN easeInFrames |->
           [time |-> time(easeInFrames[k]),
            parameters |-> interpolateParameters(neutralParams, targetParams,
                                                 4 * easeInFrames[k], count, "easeOut").value]]
       \o [k \in DOMAIN holdFrames |->
              [time |-> time(holdFrames[k]), parameters |-> targetParams]]
       \o [k \in DOMAIN easeOutFrames |->
              [time |-> time(easeOutFrames[k]),
               parameters |-> interpolateParameters(targetParams, neutralParams,
                                                    4 * easeOutFrames[k] - 3 * count, count,
                                                    "easeIn").value]]

(***************************************************************************)
(* sendMessage(data) and the handlers of inbound messages                   *)
(***************************************************************************)
Invoke(w, handler) == [w EXCEPT !.obs.invoked = @ \cup {handler}]

\* A faulty sendMessage(), which does not look at the state of the transport.
sendMessage_StateUnchecked(w, type, sequenceId) ==
    IF ~w.client.isConnected \/ w.client.ws = 0
    THEN w
    ELSE [w EXCEPT !.obs.sent = Append(@, [type |-> type, sequence_id |-> sequenceId,
                                           client_id |-> w.client.clientId])]

sendMessage(w, type, sequenceId) ==
    IF ~w.client.isConnected \/ w.client.ws = 0 \/ CurrentState(w) # "OPEN"
    THEN w
    ELSE [w EXCEPT !.obs.sent = Append(@, [type |-> type, sequence_id |-> sequenceId,
                                           client_id |-> w.client.clientId])]

\* What sendMessage(data) returns: false from its guard, true after ws.send().
sendMessageReturns(w) == ~(~w.client.isConnected \/ w.client.ws = 0 \/ CurrentState(w) # "OPEN")

\* requestAnimation(expression, intensity, duration, priority) returns what sendMessage() returns.
requestAnimation(w) ==
    [sendMessage(w, "request_animation", 0) EXCEPT !.obs.returned = <<sendMessageReturns(w)>>]

sendAnimationComplete(w, sequenceId) == sendMessage(w, "animation_complete", sequenceId)

\* The rest of handleAnimationEvent() after the handler of the event returned.
\* obs.finished lists the sequence_id (0 for none) of every event whose handler returned.
animationEventHandled(w, sequenceId) ==
    LET w1 == [w EXCEPT !.obs.finished = Append(@, sequenceId)]
    IN IF sequenceId # 0 THEN sendAnimationComplete(w1, sequenceId) ELSE w1

\* setTimeout() of a callback that closes over more than a number, the
\* record closure.  Such a callback may run between two ticks of the clock
\* of the model: its timer is due the delay after the time at.
setTimeoutAt(w, at, delay, kind, closure) ==
    [w EXCEPT !.timers.pending =
        Append(@, [due |-> at + delay, kind |-> kind, arg |-> 0, closure |-> closure])]

\* easedProgress of step i of applyExpressionTransition(), as the fraction [num, den].
easedProgress(easing_type, i) ==
    IF easing_type = "easeInOut"
    THEN IF 2 * i < transitionSteps
         THEN [num |-> 2 * i * i, den |-> transitionSteps * transitionSteps]
         ELSE [num |-> transitionSteps * transitionSteps
                       - 2 * (transitionSteps - i) * (transitionSteps - i),
               den |-> transitionSteps * transitionSteps]
    ELSE [num |-> i, den |-> transitionSteps]

\* expressionMap[name]?.params || {}: a member expressionMap inherits has no params.
paramsOf(name) == IF name \in DOMAIN expressionMap THEN expressionMap[name] ELSE NoParams

\* interpolateExpressions(fromExpr, toExpr, progress, blendFactor) for the
\* progress num / den; setParameter(param, value, false) writes each value,
\* kept to the thousandth.
interpolateExpressions(w, fromExpr, toExpr, progress, blendFactor) ==
    LET fromParams == paramsOf(fromExpr)
        toParams == paramsOf(toExpr)
    IN [w EXCEPT !.live2d.parameterTargets =
           [param \in Params |->
               IF param \in DOMAIN fromParams \cup DOMAIN toParams
               THEN LET fromValue == Get(fromParams, param, 0)
                        toValue == Get(toParams, param, 0)
                    IN fromValue + Scale(((toValue - fromValue) * progress.num) \div progress.den,
                                         blendFactor)
               ELSE @[param]]]

\* Step i of the loop of applyExpressionTransition(transition), which runs
\* at the time at: the parameters are written and, before the last step,
\* the call waits stepDuration for the next.  After the last step
\* handleExpressionChange() returns to handleAnimationEvent().  A delay that
\* is no number (a transition without duration) counts as 0.
transitionStep(w, transition, i, sequenceId, at) ==
    LET stepDuration == Get(transition, "duration", 0) \div transitionSteps
        w1 == interpolateExpressions(w, Get(transition, "from_expression", Undefined),
                                     Get(transition, "to_expression", Undefined),
                                     easedProgress(Get(transition, "easing_type", Undefined), i),
                                     Get(transition, "blend_factor", IntensityOne))
    IN IF i < transitionSteps
       THEN setTimeoutAt(w1, at, stepDuration, "transitionStep",
                         [transition |-> transition, i |-> i + 1, sequence_id |-> sequenceId,
                          at |-> at + stepDuration])
       ELSE animationEventHandled(w1, sequenceId)

\* applyExpressionTransition(transition) up to its first wait.
applyExpressionTransition(w, transition, sequenceId) ==
    transitionStep(w, transition, 0, sequenceId, w.now)

\* handleExpressionChange(event): the rest of handleAnimationEvent() waits
\* for the transition or for the promise of triggerAnimation(), whose
\* defaults stand in for an intensity and a duration the data has not.
handleExpressionChange(w, event) ==
    IF "transition" \in DOMAIN event.data
    THEN applyExpressionTransition(w, event.data.transition, event.sequence_id)
    ELSE triggerAnimation(w, Get(event.data, "expression", ""),
                          Get(event.data, "intensity", 7000),
                          Get(event.data, "duration", 2000),
                          "expressionChanged", event.sequence_id)

\* handleMouthSyncStart(event); a sync_config is merged into
\* live2d.mouth_sync_config, which nothing reads.
handleMouthSyncStart(w, event) ==
    LET w1 == [w EXCEPT !.client.audioSyncActive = TRUE, !.live2d.isSpeaking = TRUE]
        audio_duration == Get(event.data, "audio_duration", 0)
    IN IF audio_duration # 0
       THEN setTimeout(w1, audio_duration, "mouthSyncAutoStop", 0)
       ELSE w1

handleMouthSyncStop(w, return_to_neutral) ==
    LET w1 == [w EXCEPT !.client.audioSyncActive = FALSE, !.live2d.isSpeaking = FALSE]
        w2 == setParameter(setParameter(setParameter(w1, "ParamMouthOpenY", 0, TRUE),
                                        "ParamMouthForm", 0, TRUE), "ParamAngleY", 0, TRUE)
    IN IF return_to_neutral THEN setTimeout(w2, 200, "returnToNeutral", 0) ELSE w2

\* handleMouthSyncUpdate(event), for data with mouth_open and mouth_form; an
\* audio level above 0.1 moves the head.
handleMouthSyncUpdate(w, event) ==
    IF ~w.client.audioSyncActive
    THEN w
    ELSE LET w1 == setParameter(setParameter(w, "ParamMouthOpenY", event.data.mouth_open, TRUE),
                                "ParamMouthForm", event.data.mouth_form, TRUE)
             audio_level == Get(event.data, "audio_level", 0)
         IN IF audio_level > 100
            THEN setParameter(w1, "ParamAngleY",
                              (sin(w.now * 100) * (audio_level - 100)) \div 100000, TRUE)
            ELSE w1

\* The callback handleMouthSyncStart() sets for the end of the audio.
mouthSyncAutoStop(w) == IF w.client.audioSyncActive THEN handleMouthSyncStop(w, TRUE) ELSE w

\* The callback handleMouthSyncStop() sets: the promise returned is dropped.
returnToNeutral(w) == triggerAnimation(w, "neutral", 5000, 1000, "dropped", 0)

\* handleParameterUpdate(event), for data that names parameters of the model.
handleParameterUpdate(w, event) ==
    [w EXCEPT !.live2d.parameterTargets =
        [param \in Params |-> IF param \in DOMAIN event.data THEN event.data[param] ELSE @[param]]]

\* handleSyncTiming(event) for the object event, a message or an event, with
\* its property data when hasData.  It stores event.data first; without data
\* the destructuring throws, which rejects the promise of the call.  An
\* audio start that is not in the future, or none, dispatches audioSyncReady
\* at once.
handleSyncTiming(w, hasData, data) ==
    LET w1 == Invoke(w, "handleSyncTiming")
        audioDelay == Max(0, Get(data, "audio_start_time", 0) - w.now)
    IN IF ~hasData
       THEN [w1 EXCEPT !.client.syncTimingData = UndefinedObject, !.obs.rejected = TRUE]
       ELSE IF audioDelay > 0
       THEN setTimeout([w1 EXCEPT !.client.syncTimingData = data], audioDelay,
                       "audioSyncReady", 0)
       ELSE dispatchEvent([w1 EXCEPT !.client.syncTimingData = data], "audioSyncReady")

\* The callback handleSyncTiming() sets for an audio start in the future.
audioSyncReady(w) == dispatchEvent(w, "audioSyncReady")

\* event.event_type as the switch of handleAnimationEvent() sees it.
eventType(event) == IF "event_type" \in event.fields THEN event.event_type ELSE "undefined"

\* handleAnimationEvent(data).  A handler that reads event.data of an event
\* without data throws, which the function catches: nothing is completed.
handleAnimationEvent(w, event) ==
    LET w1 == Invoke(w, "handleAnimationEvent")
        t == eventType(event)
        hasData == "data" \in event.fields
        hasHandler == t \in {"expression_change", "mouth_sync_start", "mouth_sync_update",
                             "mouth_sync_stop", "parameter_update", "sync_timing"}
    IN IF t = "sync_timing" /\ ~hasData
       THEN [handleSyncTiming(w1, FALSE, NoParams) EXCEPT !.obs.rejected = FALSE]
       ELSE IF hasHandler /\ ~hasData
       THEN w1
       ELSE IF t = "expression_change"
       THEN handleExpressionChange(w1, event)
       ELSE animationEventHandled(
              CASE t = "mouth_sync_start" -> handleMouthSyncStart(w1, event)
                [] t = "mouth_sync_update" -> handleMouthSyncUpdate(w1, event)
                [] t = "mouth_sync_stop" ->
                     handleMouthSyncStop(w1, Get(event.data, "return_to_neutral", FALSE))
                [] t = "parameter_update" -> handleParameterUpdate(w1, event)
                [] t = "sync_timing" -> handleSyncTiming(w1, TRUE, event.data)
                [] OTHER -> w1,
              event.sequence_id)

\* handleConnectionEstablished(data): a message without client_id leaves
\* clientId undefined.
handleConnectionEstablished(w, data) ==
    LET w1 == [Invoke(w, "handleConnectionEstablished") EXCEPT
                   !.client.clientId = Get(data.payload, "client_id", Undefined)]
    IN IF data.current_animation.present
       THEN handleAnimationEvent(w1, data.current_animation)
       ELSE w1

handleHeartbeat(w) ==
    dispatchEvent(sendMessage(Invoke(w, "handleHeartbeat"), "heartbeat_response", 0),
                  "serverHeartbeat")

\* measurement.timestamp of a sample of latencyMeasurements: the samples
\* are the numbers recordLatency() has pushed, and a number has no such
\* property.
timestampOf(measurement) == [defined |-> FALSE, value |-> 0]

\* undefined > cutoffTime is false.
After(timestamp, cutoffTime) == timestamp.defined /\ timestamp.value > cutoffTime

\* The callback of the interval setupPeriodicTasks() sets to clean up old
\* measurements.
latencyCleanup(w) ==
    LET cutoffTime == w.now - latencyMaxAge
    IN [w EXCEPT !.client.latencyMeasurements =
                     SelectSeq(@, LAMBDA measurement : After(timestampOf(measurement), cutoffTime))]

\* A faulty recordLatency(), which drops the newest sample of a full buffer.
recordLatency_DropNewest(w, latency) ==
    LET pushed == Append(w.client.latencyMeasurements, latency)
        over == Len(pushed) > maxLatencyMeasurements
        kept == IF over THEN SubSeq(pushed, 1, maxLatencyMeasurements) ELSE pushed
    IN sendMessage([w EXCEPT !.client.latencyMeasurements = kept,
                            !.obs.shifted = IF over THEN <<latency>> ELSE <<>>],
                   "latency_measurement", 0)

\* recordLatency(latency); obs.shifted is the sample shift() has removed.
recordLatency(w, latency) ==
    LET pushed == Append(w.client.latencyMeasurements, latency)
        over == Len(pushed) > maxLatencyMeasurements
        kept == IF over THEN Tail(pushed) ELSE pushed
    IN sendMessage([w EXCEPT !.client.latencyMeasurements = kept,
                            !.obs.shifted = IF over THEN <<Head(pushed)>> ELSE <<>>],
                   "latency_measurement", 0)

\* handlePong(data), for a pong whose timestamp is 40 ms old.
handlePong(w) == recordLatency(Invoke(w, "handlePong"), 40)

eventHandlers == {"connection_established", "animation_event", "heartbeat", "pong", "sync_timing"}

\* A faulty _validateAnimationEvent(), which does not look for the timestamp.
_validateAnimationEvent_NoTimestamp(event) ==
    /\ event.present
    /\ {"event_type", "data"} \subseteq event.fields
    /\ event.event_type # "object_bad"

\* _validateAnimationEvent(data): TRUE when it returns, FALSE when it throws.
_validateAnimationEvent(event) ==
    /\ event.present
    /\ requiredFields \subseteq event.fields
    /\ event.event_type # "object_bad"

_updateConnectionHealth(w, success) ==
    IF success
    THEN [w EXCEPT !.client.consecutiveErrors = 0]
    ELSE LET w1 == [w EXCEPT !.client.consecutiveErrors = @ + 1]
         IN IF w1.client.consecutiveErrors > MaxConsecutiveErrors
            THEN scheduleReconnect(w1)
            ELSE w1

\* A faulty check of the message, which accepts a message without a type.
messageThrows_TypeUnchecked(data) ==
    \/ ~data.parses
    \/ ~data.isObject
    \/ data.type = "animation_event" /\ ~_validateAnimationEvent(data.event)

\* TRUE when the try block of handleMessage() throws before a handler runs.
messageThrows(data) ==
    \/ ~data.parses
    \/ ~data.isObject
    \/ data.type = ""
    \/ data.type = "animation_event" /\ ~_validateAnimationEvent(data.event)

\* handleMessage(event).  It first stores the raw message for debugging;
\* obs.dispatched lists the members eventHandlers[messageType] that were
\* called.  A type that names a member eventHandlers inherits is called as
\* a handler: the call of a function counts as a success, a call that
\* throws is caught as any other error.
handleMessage(w, data) ==
    LET w0 == [w EXCEPT !.client.lastReceivedMessage = [timestamp |-> w.now, data |-> data]]
        w1 == [w0 EXCEPT !.obs.dispatched = Append(@, data.type)]
    IN IF messageThrows(data)
       THEN dispatchEvent(_updateConnectionHealth(w0, FALSE), "messageError")
       ELSE IF data.type \in eventHandlers
       THEN _updateConnectionHealth(
              CASE data.type = "connection_established" -> handleConnectionEstablished(w1, data)
                [] data.type = "animation_event" -> handleAnimationEvent(w1, data.event)
                [] data.type = "heartbeat" -> handleHeartbeat(w1)
                [] data.type = "pong" -> handlePong(w1)
                [] data.type = "sync_timing" ->
                     handleSyncTiming(w1, "data" \in DOMAIN data.payload,
                                      Get(data.payload, "data", NoParams)),
              TRUE)
       ELSE IF Inherited(eventHandlers, data.type)
       THEN IF InheritedCallThrows(data.type)
            THEN dispatchEvent(_updateConnectionHealth(w0, FALSE), "messageError")
            ELSE _updateConnectionHealth(w1, TRUE)
       ELSE w0

(***************************************************************************)
(* AnimationController (animation-controller.js).  A call of                *)
(* triggerContextualAnimation() that awaits the render target is a record   *)
(* in controller.calls: pc names the await it stands at, now is the time    *)
(* the call read on entry.                                                  *)
(***************************************************************************)
transitionRules ==
    [happy     |-> {"neutral", "surprised", "speak"},
     sad       |-> {"neutral", "angry"},
     angry     |-> {"neutral", "sad"},
     surprised |-> {"happy", "neutral"},
     neutral   |-> {"happy", "sad", "surprised", "angry", "speak"},
     speak     |-> {"neutral", "happy"}]

\* What a call gives: the value it returns, or nothing when it throws.
Returns(value) == [thrown |-> FALSE, value |-> value]
Throws == [thrown |-> TRUE, value |-> FALSE]

\* A faulty isValidTransition(), which knows no unset expression.
isValidTransition_UnsetInvalid(fromExpression, toExpression) ==
    IF fromExpression = "neutral"
    THEN Returns(TRUE)
    ELSE IF fromExpression \in DOMAIN transitionRules
    THEN Returns(toExpression \in transitionRules[fromExpression])
    ELSE IF Inherited(DOMAIN transitionRules, fromExpression)
    THEN Throws
    ELSE Returns(FALSE)

\* isValidTransition(fromExpression, toExpression); "" is an expression that
\* is not set.  When transitionRules[fromExpression] is a member the rules
\* inherit, allowedTransitions has no includes() and the call throws.
isValidTransition(fromExpression, toExpression) ==
    IF fromExpression = "" \/ fromExpression = "neutral"
    THEN Returns(TRUE)
    ELSE IF fromExpression \in DOMAIN transitionRules
    THEN Returns(toExpression \in transitionRules[fromExpression])
    ELSE IF Inherited(DOMAIN transitionRules, fromExpression)
    THEN Throws
    ELSE Returns(FALSE)

NoCall == [pc |-> "idle", now |-> 0, animation |-> Animation("", 0, 0), intermediate |-> FALSE]

\* A faulty addToHistory(), which drops the newest entry of a full history.
addToHistory_DropNewest(w, animation) ==
    LET pushed == Append(w.controller.animationHistory, [timestamp |-> w.now] @@ animation)
    IN [w EXCEPT !.controller.animationHistory =
                     IF Len(pushed) > maxHistoryLength
                     THEN SubSeq(pushed, 1, maxHistoryLength) ELSE pushed]

addToHistory(w, animation) ==
    LET pushed == Append(w.controller.animationHistory, [timestamp |-> w.now] @@ animation)
    IN [w EXCEPT !.controller.animationHistory =
                     IF Len(pushed) > maxHistoryLength THEN Tail(pushed) ELSE pushed]

\* triggerContextualAnimation(animation) up to its first await; c is the
\* record the call takes when it has to wait.  What isValidTransition()
\* throws rejects the promise of the call.
triggerContextualAnimation(w, c, animation) ==
    IF w.now - w.controller.lastAnimationTime < minAnimationInterval
    THEN [w EXCEPT !.obs.returned = Append(@, FALSE)]
    ELSE IF isValidTransition(w.live2d.currentExpression, animation.expression).thrown
    THEN [w EXCEPT !.obs.rejected = TRUE]
    ELSE IF ~isValidTransition(w.live2d.currentExpression, animation.expression).value
    THEN triggerAnimation(
           [w EXCEPT !.controller.calls[c] = [pc |-> "neutral", now |-> w.now,
                                             animation |-> animation, intermediate |-> TRUE],
                     !.obs.call = c],
           "neutral", 5000, 500, "callResumed", c)
    ELSE triggerAnimation(
           [w EXCEPT !.controller.calls[c] = [pc |-> "requested", now |-> w.now,
                                             animation |-> animation, intermediate |-> FALSE],
                     !.obs.call = c],
           animation.expression, animation.intensity, animation.duration, "callResumed", c)

\* The rest of triggerContextualAnimation() after the promise call c awaits resolved.
callResumed(w, c) ==
    LET call == w.controller.calls[c]
    IN CASE call.pc = "neutral" ->
              setTimeout([w EXCEPT !.controller.calls[c].pc = "sleep"], 500, "callResumed", c)
         [] call.pc = "sleep" ->
              triggerAnimation([w EXCEPT !.controller.calls[c].pc = "requested"],
                               call.animation.expression, call.animation.intensity,
                               call.animation.duration, "callResumed", c)
         [] call.pc = "requested" ->
              [addToHistory(w, call.animation) EXCEPT
                   !.controller.lastAnimationTime = call.now,
                   !.controller.calls[c] = NoCall,
                   !.obs.returned = Append(@, TRUE),
                   !.obs.call = c,
                   !.obs.intermediate = call.intermediate]
         [] OTHER -> w

(***************************************************************************)
(* The conversation context of the AnimationController and the animation    *)
(* it determines for a response.  A text is described by what the code      *)
(* counts in it; energy, engagement and confidence are counted like         *)
(* intensities.                                                             *)
(***************************************************************************)
Text(length, exclamations, questions, capitals, emotionalWords, pronouns) ==
    [length |-> length, exclamations |-> exclamations, questions |-> questions,
     capitals |-> capitals, emotionalWords |-> emotionalWords, pronouns |-> pronouns]

\* "Hello!" and a text of 120 characters with a question, two capitals, one
\* emotional word and one personal pronoun.
Texts == {Text(6, 1, 0, 1, 0, 0), Text(120, 0, 1, 2, 1, 1)}

\* The context the constructor and resetContext() build.
freshContext == [mood |-> "neutral", energy |-> IntensityOne \div 2,
                 engagement |-> IntensityOne \div 2, lastUserInput |-> "", responseCount |-> 0]

\* intensityModifiers, in tenths.
intensityModifiers == [first_interaction |-> 12, repeated_expression |-> 7,
                       high_engagement |-> 11, low_engagement |-> 8]

\* intensity *= modifier
Times(intensity, modifier) == (intensity * modifier) \div 10

sentimentMap == [positive |-> "happy", negative |-> "sad", anger |-> "angry",
                 surprise |-> "surprised", neutral |-> "neutral", joy |-> "happy",
                 sadness |-> "sad", fear |-> "surprised", disgust |-> "angry"]

\* sentimentMap[sentiment.toLowerCase()] || 'neutral'.  A member sentimentMap
\* inherits is truthy and becomes the expression.
sentimentExpression(sentiment) ==
    LET name == toLowerCase(sentiment)
    IN IF name \in DOMAIN sentimentMap
       THEN sentimentMap[name]
       ELSE IF Inherited(DOMAIN sentimentMap, name)
       THEN InheritedAsString(name)
       ELSE "neutral"

\* mapSentimentToExpression(sentiment, confidence) of the render target: it
\* also triggers the expression for two seconds and drops the promise.
mapSentimentToExpression(w, sentiment, confidence) ==
    triggerAnimation(w, sentimentExpression(sentiment), confidence, 2000, "dropped", 0)

updateConversationContext(w, text, sentiment, confidence) ==
    [w EXCEPT !.controller.conversationContext.mood = sentiment,
              !.controller.conversationContext.energy =
                  Min(IntensityOne, 5000 + text.exclamations * 1000 + text.questions * 500
                                    + (text.capitals * 3000) \div text.length),
              !.controller.conversationContext.responseCount = @ + 1]

\* analyzeUserEngagement(text), for a text that is not empty.
analyzeUserEngagement(text) ==
    Clamp(1000, IntensityOne,
          5000 + (IF text.length > 50 THEN 2000 ELSE 0) + (IF text.length > 100 THEN 1000 ELSE 0)
               + (IF text.questions > 0 THEN 1000 ELSE 0)
               + text.emotionalWords * 500 + text.pronouns * 300)

\* A faulty count, which looks at the whole history.
repeatedCount_WholeHistory(history, expression) ==
    Cardinality({i \in 1..Len(history) : history[i].expression = expression})

\* animationHistory.slice(-3).filter(h => h.expression === expression).length
repeatedCount(history, expression) ==
    Cardinality({i \in 1..Len(history) : i > Len(history) - 3 /\ history[i].expression = expression})

\* The intensity determineAnimation() computes before it clamps it.
modifiedIntensity(ctrl, expression, confidence) ==
    LET context == ctrl.conversationContext
        first == IF context.responseCount = 0
                 THEN Times(confidence, intensityModifiers.first_interaction)
                 ELSE confidence
        engaged == IF context.engagement > 7000
                   THEN Times(first, intensityModifiers.high_engagement)
                   ELSE IF context.engagement < 3000
                   THEN Times(first, intensityModifiers.low_engagement)
                   ELSE first
    IN IF repeatedCount(ctrl.animationHistory, expression) >= 2
       THEN Times(engaged, intensityModifiers.repeated_expression)
       ELSE engaged

\* The animation determineAnimation(sentiment, confidence, text) returns; the
\* duration is in milliseconds.
determined(ctrl, sentiment, confidence, text) ==
    Animation(sentimentExpression(sentiment),
              Clamp(3000, IntensityOne,
                    modifiedIntensity(ctrl, sentimentExpression(sentiment), confidence)),
              2000 + (Min(text.length * 10, 2000) \div 2))
    @@ [sentiment |-> sentiment, confidence |-> confidence]

\* determineAnimation(sentiment, confidence, text): obs.determined lists what it returned.
determineAnimation(w, sentiment, confidence, text) ==
    [mapSentimentToExpression(w, sentiment, confidence) EXCEPT
        !.obs.determined = Append(@, determined(w.controller, sentiment, confidence, text))]

\* A text with what SentimentAnalyzer.analyze() counts in it: the words
\* text.toLowerCase().split(/\W+/) yields and those of them in positiveWords,
\* negativeWords and surpriseWords.
AnalyzedText(text, words, positiveScore, negativeScore, surpriseScore) ==
    text @@ [words |-> words, positiveScore |-> positiveScore,
             negativeScore |-> negativeScore, surpriseScore |-> surpriseScore]

\* SentimentAnalyzer.analyze(text)
analyze(text) ==
    LET maxScore == Max(text.positiveScore, Max(text.negativeScore, text.surpriseScore))
    IN IF text.length = 0 \/ maxScore = 0
       THEN [sentiment |-> "neutral", confidence |-> 5000]
       ELSE [sentiment |-> IF text.positiveScore = maxScore THEN "happy"
                           ELSE IF text.negativeScore = maxScore
                           THEN (IF text.negativeScore > 2 THEN "angry" ELSE "sad")
                           ELSE IF text.surpriseScore = maxScore THEN "surprised"
                           ELSE "neutral",
             confidence |-> Min(9000, 5000 + (maxScore * 20000) \div text.words)]

\* handleAIResponse(responseData) up to its first await; a response without
\* a sentiment has sentiment ""; c is the record the call of
\* triggerContextualAnimation() takes when it has to wait.  What the call
\* throws is caught and logged.
handleAIResponse(w, c, responseData) ==
    LET analysis == analyze(responseData.text)
        analyzedSentiment == IF responseData.sentiment = "" THEN analysis.sentiment
                             ELSE responseData.sentiment
        sentimentConfidence == IF responseData.sentiment = "" THEN analysis.confidence
                               ELSE IF responseData.confidence = 0 THEN 7000
                               ELSE responseData.confidence
        w1 == updateConversationContext(w, responseData.text, analyzedSentiment,
                                        sentimentConfidence)
        w2 == determineAnimation(w1, analyzedSentiment, sentimentConfidence,
                                 responseData.text)
    IN [triggerContextualAnimation(w2, c, w2.obs.determined[1]) EXCEPT !.obs.rejected = FALSE]

\* triggerListeningAnimation()
triggerListeningAnimation(w) ==
    setTimeout(setParameter(w, "ParamEyeBallY", -200, TRUE), 1000, "listeningEnd", 0)

\* The callback triggerListeningAnimation() sets.
listeningEnd(w) == setParameter(w, "ParamEyeBallY", 0, TRUE)

\* handleUserInput(inputData), for a text that is not empty.
handleUserInput(w, text, type) ==
    LET w1 == [w EXCEPT !.controller.conversationContext.lastUserInput = type,
                        !.controller.conversationContext.engagement = analyzeUserEngagement(text)]
    IN IF type = "voice" THEN triggerListeningAnimation(w1) ELSE w1

\* handleTTSStart(audioData) up to its await of the speak animation;
\* outcome is "none" for audio data without an audio element and else what
\* startMouthSync() will come to.
handleTTSStart(w, outcome) ==
    setTimeoutAt([w EXCEPT !.live2d.animationQueue = Append(@, Animation("speak", 6000, 500))],
                 w.now, 500, "ttsSpeakDone", [outcome |-> outcome])

\* The rest of handleTTSStart() after the speak animation resolved.
ttsSpeakDone(w, outcome) == IF outcome = "none" THEN w ELSE startMouthSync(w, outcome)

\* handleTTSEnd(): the callback it sets triggers neutral as returnToNeutral() does.
handleTTSEnd(w) == setTimeout(stopMouthSync(w), 500, "returnToNeutral", 0)

resetContext(w) ==
    triggerAnimation([w EXCEPT !.controller.conversationContext = freshContext,
                               !.controller.animationHistory = <<>>,
                               !.controller.lastAnimationTime = 0,
                               !.obs.resetAt = w.now],
                     "neutral", 5000, 1000, "dropped", 0)

(***************************************************************************)
(* Live2DIntegration of live2d-integration.js, which asks the server first. *)
(* pixi.fetches are the requests to /animate still without a response.      *)
(***************************************************************************)
pixiExecuteAnimation(w, animation) ==
    IF ~w.pixi.live2dModel
    THEN w
    ELSE setTimeout([w EXCEPT !.pixi.isAnimating = TRUE,
                              !.pixi.currentExpression = animation.expression],
                    animation.duration, "pixiAnimationEnd", 0)

\* The callback executeAnimation() sets for the end of the animation.
pixiAnimationEnd(w) ==
    [w EXCEPT !.pixi.currentExpression = "neutral", !.pixi.isAnimating = FALSE]

pixiProcessAnimationQueue(w) ==
    IF Len(w.pixi.animationQueue) > 0 /\ ~w.pixi.isAnimating
    THEN pixiExecuteAnimation([w EXCEPT !.pixi.animationQueue = Tail(@)],
                              Head(w.pixi.animationQueue))
    ELSE w

\* triggerAnimation() up to its first await: the request to the server.
pixiTriggerAnimation(w, animation) == [w EXCEPT !.pixi.fetches = Append(@, animation)]

\* triggerAnimation() after the server answered request i: "success" is an ok
\* response that reports success, after which executeAnimation() runs and
\* true is returned; any other outcome falls back to the queue.
pixiFetchDone(w, i, outcome) ==
    LET animation == w.pixi.fetches[i]
        w1 == [w EXCEPT !.pixi.fetches = SubSeq(@, 1, i - 1) \o SubSeq(@, i + 1, Len(@)),
                        !.obs.args = <<animation>>]
    IN IF outcome = "success"
       THEN [pixiExecuteAnimation(w1, animation) EXCEPT !.obs.returned = <<TRUE>>]
       ELSE setTimeout([w1 EXCEPT !.pixi.animationQueue = Append(@, animation)],
                       animation.duration, "dropped", 0)

(***************************************************************************)
(* Initial state: the page has built the render target, the controller and  *)
(* the client; the constructor of the client has run connect() and the      *)
(* first socket is connecting.                                              *)
(***************************************************************************)
Init ==
    /\ client = [ws |-> 1, isConnected |-> FALSE, reconnectAttempts |-> 0,
                 intentionalClose |-> FALSE, clientId |-> Null, consecutiveErrors |-> 0,
                 audioSyncActive |-> FALSE, syncTimingData |-> NullObject,
                 lastReceivedMessage |-> NoLastMessage,
                 latencyMeasurements |-> <<>>]
    /\ sockets = [i \in SocketIds |->
                    IF i = 1 THEN [readyState |-> "CONNECTING", closeCode |-> 0]
                    ELSE [readyState |-> "UNUSED", closeCode |-> 0]]
    /\ timers = [reconnect |-> 0, timeoutArmed |-> TRUE, timeoutLeaked |-> 0, ping |-> 0,
                 pending |-> <<>>]
    /\ live2d = [currentExpression |-> "neutral", isAnimating |-> FALSE,
                 animationQueue |-> <<>>, isSpeaking |-> FALSE, analyser |-> FALSE,
                 rendering |-> TRUE, parameterTargets |-> defaultParams]
    /\ pixi = [live2dModel |-> FALSE, currentExpression |-> "neutral", isAnimating |-> FALSE,
               animationQueue |-> <<>>, fetches |-> <<>>]
    /\ controller = [lastAnimationTime |-> 0, animationHistory |-> <<>>,
                     conversationContext |-> freshContext,
                     calls |-> [c \in CallIds |-> NoCall]]
    /\ mapping = [expressions |-> expressions, proto |-> NoParams]
    /\ now = StartTime
    /\ obs = [delays |-> <<>>, terminal |-> FALSE, userClosed |-> FALSE, requests |-> 0,
              resetAt |-> 0] @@
             [NoObservation EXCEPT !.attempt = TRUE]
    /\ op = "constructor"

\* The model follows a handler only into a state within its bounds.
Bounded(w) ==
    /\ w.timers.reconnect <= MaxReconnectTimers
    /\ w.timers.timeoutLeaked <= MaxLeakedTimeouts
    /\ w.timers.ping <= MaxPingIntervals
    /\ Len(w.timers.pending) <= MaxPending
    /\ w.client.consecutiveErrors <= MaxErrorRun
    /\ Len(w.live2d.animationQueue) <= MaxQueue
    /\ Len(w.pixi.animationQueue) <= MaxQueue
    /\ Len(w.pixi.fetches) <= MaxCalls
    /\ w.now <= MaxTime
    /\ w.obs.requests <= MaxRequests

Do(w) ==
    /\ Bounded(w)
    /\ Commit(w)

(***************************************************************************)
(* Actions: one per handler                                                 *)
(***************************************************************************)
\* The caller invokes connect().
Connect ==
    /\ CanConnect(World)
    /\ Do(connect([World EXCEPT !.obs.userClosed = FALSE, !.obs.terminal = FALSE]))
    /\ op' = "connect"

\* The caller invokes reconnect().
Reconnect ==
    /\ CanConnect(reconnectClose(World))
    /\ Do(reconnect(World))
    /\ op' = "reconnect"

\* The caller invokes disconnect().
Disconnect ==
    /\ Do(disconnect(World))
    /\ op' = "disconnect"

\* ws.onopen of socket s.
SocketOpen(s) ==
    /\ sockets[s].readyState = "CONNECTING"
    /\ Do(handleOpen(ClearConnectionTimeout([World EXCEPT !.sockets[s].readyState = "OPEN"])))
    /\ op' = "open"

\* The connection of socket s fails or is lost: ws.onerror, then ws.onclose(1006).
SocketFail(s) ==
    /\ sockets[s].readyState \in {"CONNECTING", "OPEN"}
    /\ LET w0 == [World EXCEPT !.sockets[s].readyState = "CLOSED"]
           w1 == handleError(ClearConnectionTimeout(w0))
       IN Do(handleClose(ClearConnectionTimeout(w1), BrowserCloseCode.abnormal))
    /\ op' = "fail"

\* The server closes socket s with a close frame: ws.onclose(code).
ServerClose(s, code) ==
    /\ sockets[s].readyState = "OPEN"
    /\ Do(handleClose(ClearConnectionTimeout([World EXCEPT !.sockets[s].readyState = "CLOSED"]),
                      code))
    /\ op' = IF code = NormalClosure THEN "closeNormal" ELSE "close"

\* A close() of the client completes on socket s.
CloseComplete(s) ==
    /\ sockets[s].readyState = "CLOSING"
    /\ LET code == sockets[s].closeCode
           w0 == [World EXCEPT !.sockets[s].readyState = "CLOSED"]
           w1 == IF code = BrowserCloseCode.abnormal
                 THEN handleError(ClearConnectionTimeout(w0))
                 ELSE w0
       IN Do(handleClose(ClearConnectionTimeout(w1), code))
    /\ op' = "closed"

\* A reconnect timer set by scheduleReconnect() fires.
ReconnectTimer ==
    /\ timers.reconnect > 0
    /\ LET w0 == [World EXCEPT !.timers.reconnect = @ - 1]
       IN /\ CanConnect(w0)
          /\ Do(connect(w0))
    /\ op' = "reconnectTimer"

\* The connection timeout the field connectionTimeout refers to fires.
ConnectTimeout ==
    /\ timers.timeoutArmed
    /\ Do(connectionTimeoutCallback([World EXCEPT !.timers.timeoutArmed = FALSE]))
    /\ op' = "connectTimeout"

\* A connection timeout of an earlier connect(), whose handle was overwritten, fires.
LeakedConnectTimeout ==
    /\ timers.timeoutLeaked > 0
    /\ Do(connectionTimeoutCallback([World EXCEPT !.timers.timeoutLeaked = @ - 1]))
    /\ op' = "connectTimeout"

\* ws.onmessage of socket s with message data; the model follows it while
\* few timers set by messages are pending and few latencies are recorded.
HandleMessage(s, data) ==
    /\ sockets[s].readyState = "OPEN"
    /\ Do(handleMessage([World EXCEPT !.obs.received = data], data))
    /\ Len(timers'.pending) <= MaxMessageTimers
    /\ Len(client'.latencyMeasurements) <= MaxLatencySamples
    /\ op' = "message"

\* The start and the stop of a mouth-sync session, as the server sends them.
SyncMessage(event_type) ==
    Message(TRUE, TRUE, "animation_event", Event(requiredFields, event_type, 0), NoEvent)

\* ws.onmessage of socket s for the start of a mouth-sync session, which the
\* server sends when none is active; the timers of the sessions may all be
\* pending together.
MouthSyncStart(s) ==
    /\ sockets[s].readyState = "OPEN"
    /\ ~client.audioSyncActive
    /\ Do(handleMessage([World EXCEPT !.obs.received = SyncMessage("mouth_sync_start")],
                        SyncMessage("mouth_sync_start")))
    /\ op' = "message"

\* ws.onmessage of socket s for the stop of the session that is active.
MouthSyncStop(s) ==
    /\ sockets[s].readyState = "OPEN"
    /\ client.audioSyncActive
    /\ Do(handleMessage([World EXCEPT !.obs.received = SyncMessage("mouth_sync_stop")],
                        SyncMessage("mouth_sync_stop")))
    /\ op' = "message"

\* The pending timer that is due first, the one set first among equals.
NextTimer ==
    CHOOSE i \in 1..Len(timers.pending) :
        \A j \in 1..Len(timers.pending) :
            \/ timers.pending[j].due > timers.pending[i].due
            \/ timers.pending[j].due = timers.pending[i].due /\ j >= i

TimerIsDue == \E i \in 1..Len(timers.pending) : timers.pending[i].due <= now

\* The callback the timer runs.
timerCallback(w, timer) ==
    LET kind == timer.kind
        arg == timer.arg
    IN
    CASE kind = "animationEnd" -> animationEnd(w)
      [] kind = "expressionChanged" -> animationEventHandled(w, arg)
      [] kind = "mouthSyncAutoStop" -> mouthSyncAutoStop(w)
      [] kind = "returnToNeutral" -> returnToNeutral(w)
      [] kind = "callResumed" -> callResumed(w, arg)
      [] kind = "listeningEnd" -> listeningEnd(w)
      [] kind = "pixiAnimationEnd" -> pixiAnimationEnd(w)
      [] kind = "transitionStep" ->
           transitionStep(w, timer.closure.transition, timer.closure.i,
                          timer.closure.sequence_id, timer.closure.at)
      [] kind = "audioSyncReady" -> audioSyncReady(w)
      [] kind = "ttsSpeakDone" -> ttsSpeakDone(w, timer.closure.outcome)
      [] OTHER -> w

\* The callback of the timer that is due runs.
TimerDue ==
    /\ TimerIsDue
    /\ LET i == NextTimer
           t == timers.pending[i]
           w == [World EXCEPT !.timers.pending = SubSeq(@, 1, i - 1) \o SubSeq(@, i + 1, Len(@))]
       IN /\ Do(timerCallback(w, t))
          /\ op' = t.kind

\* Time passes; a timer that is due runs before time passes again.
Tick ==
    /\ ~TimerIsDue
    /\ Do([World EXCEPT !.now = @ + TickMs])
    /\ op' = "tick"

\* A frame of the render loop while it has an animation queued or a mouth
\* to move; average is what the analyser measures (0 where none is read).
\* A frame that finds neither changes nothing that the model follows.
RenderFrame(average) ==
    /\ live2d.rendering
    /\ \/ Len(live2d.animationQueue) > 0 /\ average = 0
       \/ live2d.isSpeaking /\ live2d.analyser
    /\ Do(render(World, average))
    /\ op' = "frame"

\* What startMouthSync() comes to.
MouthSyncOutcomes == {"started", "unsupported", "sourceFails"}

\* A caller invokes startMouthSync() of the render target.
StartMouthSync(outcome) ==
    /\ obs.requests < MaxPlays
    /\ Do(startMouthSync([World EXCEPT !.obs.requests = @ + 1, !.obs.args = <<outcome>>],
                         outcome))
    /\ op' = "startMouthSync"

\* The page dispatches ttsStarted: handleTTSStart(audioData).
HandleTTSStart(outcome) ==
    /\ obs.requests < MaxPlays
    /\ Do(handleTTSStart([World EXCEPT !.obs.requests = @ + 1, !.obs.args = <<outcome>>],
                         outcome))
    /\ op' = "handleTTSStart"

\* The page dispatches ttsEnded: handleTTSEnd().
HandleTTSEnd ==
    /\ obs.requests < MaxPlays
    /\ Do(handleTTSEnd([World EXCEPT !.obs.requests = @ + 1]))
    /\ op' = "handleTTSEnd"

\* The page calls triggerAnimation() of the render target and does not wait
\* for the promise.
TriggerAnimation(animation) ==
    /\ obs.requests < MaxPlays
    /\ Do(triggerAnimation([World EXCEPT !.obs.requests = @ + 1],
                           animation.expression, animation.intensity, animation.duration,
                           "dropped", 0))
    /\ op' = "triggerAnimation"

\* The page asks the controller for an animation.
TriggerContextualAnimation(c, animation) ==
    /\ controller.calls[c].pc = "idle"
    /\ \A d \in CallIds : controller.calls[d].pc = "idle" => c <= d
    /\ Do(triggerContextualAnimation([World EXCEPT !.obs.requests = @ + 1], c, animation))
    /\ op' = "triggerContextualAnimation"

\* The page dispatches aiResponse: handleAIResponse(responseData).
HandleAIResponse(c, responseData) ==
    /\ controller.calls[c].pc = "idle"
    /\ \A d \in CallIds : controller.calls[d].pc = "idle" => c <= d
    /\ obs.requests < MaxResponses
    /\ Do(handleAIResponse([World EXCEPT !.obs.requests = @ + 1], c, responseData))
    /\ op' = "handleAIResponse"

\* The page dispatches userInput: handleUserInput(inputData).
HandleUserInput(text, type) ==
    /\ Do(handleUserInput(World, text, type))
    /\ op' = "handleUserInput"

\* The page invokes resetContext().
ResetContext ==
    /\ obs.requests < MaxResponses
    /\ Do(resetContext([World EXCEPT !.obs.requests = @ + 1]))
    /\ op' = "resetContext"

\* A caller invokes determineAnimation() itself, as the test suite does.
DetermineAnimation(sentiment, confidence, text) ==
    /\ obs.requests < MaxResponses
    /\ Do(determineAnimation([World EXCEPT !.obs.requests = @ + 1], sentiment, confidence, text))
    /\ op' = "determineAnimation"

\* A caller assigns the public fields of the controller before it asks for
\* anything, as testContextualAnimations() does with responseCount and
\* animationHistory.
AssignContext(responseCount, engagement, history) ==
    /\ obs.requests = 0
    /\ Do([World EXCEPT !.controller.conversationContext.responseCount = responseCount,
                        !.controller.conversationContext.engagement = engagement,
                        !.controller.animationHistory = history])
    /\ op' = "assignContext"

\* A caller asks isValidTransition() before it asks for anything else, as
\* testAnimationTransitions() does.
IsValidTransition(fromExpression, toExpression) ==
    /\ obs.requests = 0
    /\ LET result == isValidTransition(fromExpression, toExpression)
       IN Do([World EXCEPT !.obs.args = <<fromExpression, toExpression>>,
                           !.obs.thrown = result.thrown,
                           !.obs.returned = IF result.thrown THEN <<>> ELSE <<result.value>>])
    /\ op' = "isValidTransition"

\* A caller invokes requestAnimation(), which sends a message.
RequestAnimation ==
    /\ Do(requestAnimation(World))
    /\ op' = "requestAnimation"

\* A caller invokes getExpressionParameters().
GetExpressionParameters(expression, intensity) ==
    /\ Do([World EXCEPT !.obs.args = <<expression, intensity>>,
                        !.obs.returned = <<getExpressionParameters(World, expression, intensity)>>])
    /\ op' = "getExpressionParameters"

\* A caller invokes exportExpression().
ExportExpression(expression) ==
    /\ Do([World EXCEPT !.obs.args = <<expression>>,
                        !.obs.returned = <<exportExpression(World, expression)>>])
    /\ op' = "exportExpression"

\* A caller hands what exportExpression() has just returned to importExpression().
ImportExported ==
    /\ op = "exportExpression"
    /\ LET expressionData == obs.returned[1]
       IN Do(importExpression([World EXCEPT !.obs.args = <<expressionData>>], expressionData))
    /\ op' = "importExpression"

\* A caller invokes importExpression() with data of its own.
ImportExpression(expressionData) ==
    /\ Do(importExpression([World EXCEPT !.obs.args = <<expressionData>>], expressionData))
    /\ op' = "importExpression"

\* A caller invokes createCustomExpression().
CreateCustomExpression(name, parameters) ==
    /\ Do(createCustomExpression([World EXCEPT !.obs.args = <<name, parameters>>], name, parameters))
    /\ op' = "createCustomExpression"

\* A caller invokes createAnimationKeyframes().
CreateAnimationKeyframes(expression, duration, intensity) ==
    /\ Do([World EXCEPT
              !.obs.args = <<expression, duration, intensity>>,
              !.obs.returned = <<createAnimationKeyframes(World, expression, duration,
                                                          intensity)>>])
    /\ op' = "createAnimationKeyframes"

\* A caller invokes interpolateParameters() with the progress num / den.
InterpolateParameters(fromParams, toParams, num, den, easingType) ==
    /\ LET result == interpolateParameters(fromParams, toParams, num, den, easingType)
       IN Do([World EXCEPT !.obs.args = <<fromParams, toParams, num, den, easingType>>,
                           !.obs.thrown = result.thrown,
                           !.obs.returned = IF result.thrown THEN <<>> ELSE <<result>>])
    /\ op' = "interpolateParameters"

\* A caller invokes validateParameter().
ValidateParameter(paramId, value) ==
    /\ Do([World EXCEPT !.obs.args = <<paramId, value>>,
                        !.obs.returned = <<validateParameter(paramId, value)>>])
    /\ op' = "validateParameter"

\* A caller invokes stopMouthSync() of the render target.
StopMouthSync ==
    /\ Do(stopMouthSync(World))
    /\ op' = "stopMouthSync"

\* The latencies of the pongs, in ms: a fast and a usual one.
FastLatency == 20

\* recordLatency(latency) runs for a pong: handlePong() hands it the age of
\* the timestamp of the pong.  The model follows a fast pong only while
\* few fast samples are in the buffer.
RecordLatency(latency) ==
    /\ latency = FastLatency =>
           Len(SelectSeq(client.latencyMeasurements, LAMBDA x : x = FastLatency)) < MaxFastPongs
    /\ Do(recordLatency([World EXCEPT !.obs.args = <<latency>>], latency))
    /\ op' = "recordLatency"

\* The interval that cleans up old measurements fires.
LatencyCleanup ==
    /\ Do(latencyCleanup(World))
    /\ op' = "latencyCleanup"

\* A caller invokes setParameter() of the render target.
SetParameter(paramId, value, smooth) ==
    /\ Do(setParameter([World EXCEPT !.obs.args = <<paramId, value, smooth>>],
                       paramId, value, smooth))
    /\ op' = "setParameter"

\* The model of the render target of live2d-integration.js finishes loading.
PixiModelLoaded ==
    /\ ~pixi.live2dModel
    /\ Do([World EXCEPT !.pixi.live2dModel = TRUE])
    /\ op' = "modelLoaded"

\* A caller invokes triggerAnimation() of live2d-integration.js.
PixiTriggerAnimation(animation) ==
    /\ Do(pixiTriggerAnimation([World EXCEPT !.obs.requests = @ + 1], animation))
    /\ op' = "pixiTriggerAnimation"

\* The server answers request i, or the request fails.
PixiFetchDone(i, outcome) ==
    /\ i \in 1..Len(pixi.fetches)
    /\ Do(pixiFetchDone(World, i, outcome))
    /\ op' = "pixiFetchDone"

\* A frame of the render loop of live2d-integration.js.
PixiRenderFrame ==
    /\ pixi.live2dModel
    /\ Len(pixi.animationQueue) > 0
    /\ Do(pixiProcessAnimationQueue(World))
    /\ op' = "pixiFrame"

\* What the page asks for: an expression at intensity 0.8 for half a second.
Requests == {Animation(e, 8000, 500) : e \in {"happy", "angry"}}

Lifecycle ==
    \/ Connect
    \/ Reconnect
    \/ Disconnect
    \/ \E s \in SocketIds : SocketOpen(s)
    \/ \E s \in SocketIds : SocketFail(s)
    \/ \E s \in SocketIds, code \in {NormalClosure, 1001} : ServerClose(s, code)
    \/ \E s \in SocketIds : CloseComplete(s)
    \/ ReconnectTimer
    \/ ConnectTimeout
    \/ LeakedConnectTimeout

Next ==
    \/ Lifecycle
    \/ \E s \in SocketIds, data \in LifecycleMessages : HandleMessage(s, data)

Spec == Init /\ [][Next]_vars

\* The connection life cycle with a caller that sends.
NextSend ==
    \/ Lifecycle
    \/ RequestAnimation

SpecSend == Init /\ [][NextSend]_vars

\* The names a caller asks the mapping for: those of the constructor, one a
\* caller creates, the empty name, one the mapping never has and two of
\* members of Object.prototype.
ExpressionNames ==
    DOMAIN expressions \cup {"wink", "", "no_such_expression", "constructor", "__proto__"}

\* The intensities a caller asks for: 0, 0.5, 0.7, 1.0 and 1.5.
Intensities == {0, 5000, 7000, IntensityOne, 15000}

\* The parameters a caller creates an expression from, in and out of bounds.
CustomParameters ==
    {[ParamEyeLOpen |-> 0, ParamEyeROpen |-> 1000, ParamMouthForm |-> 500],
     [ParamEyeLOpen |-> 2000, ParamMouthForm |-> -1500, ParamBreath |-> 2000]}

\* Data a caller imports that no export returned: out of bounds, under the
\* name __proto__, without a name, without parameters.
ImportedData ==
    {ExpressionData("wink", TRUE, [ParamEyeLOpen |-> 2000, ParamMouthForm |-> -1500], 0),
     ExpressionData("__proto__", TRUE, [ParamEyeLOpen |-> 0], 0),
     ExpressionData("", TRUE, [ParamEyeLOpen |-> 0], 0),
     ExpressionData("wink", FALSE, NoParams, 0)}

\* Live2DParameterMapping and its callers.
NextMap ==
    \/ \E expression \in ExpressionNames, intensity \in Intensities :
          GetExpressionParameters(expression, intensity)
    \/ \E expression \in ExpressionNames : ExportExpression(expression)
    \/ ImportExported
    \/ \E expressionData \in ImportedData : ImportExpression(expressionData)
    \/ \E name \in {"wink", "", "happy", "__proto__"}, parameters \in CustomParameters :
          CreateCustomExpression(name, parameters)

SpecMap == Init /\ [][NextMap]_vars

Latencies == {FastLatency, 40}

\* The first connection and its pongs.
NextLat ==
    \/ \E s \in SocketIds : SocketOpen(s)
    \/ \E latency \in Latencies : RecordLatency(latency)

SpecLat == Init /\ [][NextLat]_vars

\* What the analyser measures in a frame: silence, half and full level.
AudioLevels == {0, 64, 255}

\* The clock and the render loop, with the timers that wait for the clock.
Clockwork ==
    \/ TimerDue
    \/ Tick
    \/ \E average \in AudioLevels : RenderFrame(average)

\* The render target playing while the connection is closed and lost; the
\* timers and the clock are not held up for ever.
NextPlay ==
    \/ \E expression \in {"happy", "constructor"} :
          TriggerAnimation(Animation(expression, 8000, 500))
    \/ \E s \in SocketIds : SocketOpen(s)
    \/ Disconnect
    \/ \E s \in SocketIds : SocketFail(s)
    \/ \E s \in SocketIds : ServerClose(s, 1001)
    \/ \E s \in SocketIds : CloseComplete(s)
    \/ Clockwork

SpecPlay == Init /\ [][NextPlay]_vars /\ WF_vars(TimerDue) /\ WF_vars(Tick)

\* A transition from neutral to surprised within a second.
Transition ==
    [from_expression |-> "neutral", to_expression |-> "surprised", duration |-> 1000,
     easing_type |-> "easeInOut", blend_factor |-> IntensityOne]

\* Messages whose data is not what the server usually sends: an expression
\* change with a transition, one for a member of Object.prototype, a stop
\* that does not return to neutral, timing for an audio start in the future
\* and without data, and a connection established without client_id.
PayloadMessages ==
    {Message(TRUE, TRUE, "animation_event",
             EventWith(requiredFields, "expression_change", 1, [transition |-> Transition]),
             NoEvent),
     Message(TRUE, TRUE, "animation_event",
             EventWith(requiredFields, "expression_change", 0,
                       [expression |-> "constructor", intensity |-> 8000, duration |-> 500]),
             NoEvent),
     Message(TRUE, TRUE, "animation_event",
             EventWith(requiredFields, "mouth_sync_stop", 0, [return_to_neutral |-> FALSE]),
             NoEvent),
     MessageWith(TRUE, TRUE, "sync_timing", NoEvent, NoEvent,
                 [data |-> [audio_start_time |-> StartTime + 2 * TickMs]]),
     MessageWith(TRUE, TRUE, "sync_timing", NoEvent, NoEvent, NoParams),
     MessageWith(TRUE, TRUE, "connection_established", NoEvent, NoEvent, NoParams)}

\* The client receiving such messages while the clock and the render loop run.
NextPay ==
    \/ \E s \in SocketIds : SocketOpen(s)
    \/ \E s \in SocketIds, data \in PayloadMessages : HandleMessage(s, data)
    \/ Clockwork

SpecPay == Init /\ [][NextPay]_vars

\* The controller and the render target while the page speaks.
NextTTS ==
    \/ \E outcome \in MouthSyncOutcomes \cup {"none"} : HandleTTSStart(outcome)
    \/ HandleTTSEnd
    \/ \E outcome \in MouthSyncOutcomes : StartMouthSync(outcome)
    \/ StopMouthSync
    \/ Clockwork

SpecTTS == Init /\ [][NextTTS]_vars

\* The client on its first connections, receiving every kind of message.
NextMsg ==
    \/ \E s \in SocketIds : SocketOpen(s)
    \/ \E s \in SocketIds, data \in Messages : HandleMessage(s, data)
    \/ ReconnectTimer

SpecMsg == Init /\ [][NextMsg]_vars

\* The controller and the render target of src/unnamed/part_001.
NextAnim ==
    \/ \E c \in CallIds, animation \in Requests : TriggerContextualAnimation(c, animation)
    \/ Clockwork

SpecAnim == Init /\ [][NextAnim]_vars

\* The render target of live2d-integration.js.
NextL2D ==
    \/ PixiModelLoaded
    \/ \E animation \in Requests : PixiTriggerAnimation(animation)
    \/ \E i \in 1..MaxCalls, outcome \in {"success", "refused", "failed"} : PixiFetchDone(i, outcome)
    \/ PixiRenderFrame
    \/ TimerDue
    \/ Tick

SpecL2D == Init /\ [][NextL2D]_vars

\* The sentiments, confidences and responses the controller is given.
Sentiments == {"positive", "unheard_of", "constructor"}

Confidences == {0, 2500, 8000, IntensityOne}

Responses == [text : Texts, sentiment : Sentiments, confidence : Confidences]

\* Texts as the analyzer sees them: "I am so happy today", "this is sad",
\* "terrible awful horrible service", "wow", "hello there" and "amazing!".
AnalyzedTexts ==
    {AnalyzedText(Text(19, 0, 0, 1, 1, 1), 5, 1, 0, 0),
     AnalyzedText(Text(11, 0, 0, 0, 1, 0), 3, 0, 1, 0),
     AnalyzedText(Text(31, 0, 0, 0, 3, 0), 4, 0, 3, 0),
     AnalyzedText(Text(3, 0, 0, 0, 0, 0), 1, 0, 0, 1),
     AnalyzedText(Text(11, 0, 0, 0, 0, 0), 2, 0, 0, 0),
     AnalyzedText(Text(8, 1, 0, 0, 1, 0), 2, 1, 0, 1)}

\* Responses that arrive without sentiment and confidence.
UnlabelledResponses == [text : AnalyzedTexts, sentiment : {""}, confidence : {0}]

\* An entry of animationHistory as the test suite writes it: an expression and a timestamp.
HistoryEntry(expression) ==
    [expression |-> expression, intensity |-> 0, duration |-> 0, timestamp |-> 0]

\* The expressions a caller names: none, the six of the rules, one unheard
\* of and a member of Object.prototype.
Expressions ==
    {"", "neutral", "happy", "sad", "angry", "surprised", "speak", "excited", "constructor"}

\* A history of nine entries, the oldest first, that a caller assigns.
LongHistory ==
    [i \in 1..(maxHistoryLength - 1) |->
        [expression |-> IF i % 2 = 1 THEN "happy" ELSE "sad", intensity |-> 5000,
         duration |-> 1000, timestamp |-> i]]

\* The histories, engagements and response counts a caller assigns.
AssignedHistories ==
    {<<>>, <<HistoryEntry("happy"), HistoryEntry("happy")>>,
     <<HistoryEntry("happy"), HistoryEntry("sad"), HistoryEntry("sad"), HistoryEntry("happy")>>}

AssignedEngagements == {2000, 5000, 8000}

AssignedResponseCounts == {0, 5}

\* The controller handling responses and user input in its conversation
\* context, at one moment: the render loop runs and no timer is due yet.
NextCtx ==
    \/ \E c \in CallIds, responseData \in Responses : HandleAIResponse(c, responseData)
    \/ \E text \in Texts, type \in {"text", "voice"} : HandleUserInput(text, type)
    \/ ResetContext
    \/ \E sentiment \in Sentiments, confidence \in Confidences, text \in Texts :
          DetermineAnimation(sentiment, confidence, text)
    \/ \E responseCount \in AssignedResponseCounts, engagement \in AssignedEngagements,
          history \in AssignedHistories : AssignContext(responseCount, engagement, history)
    \/ \E fromExpression, toExpression \in Expressions :
          IsValidTransition(fromExpression, toExpression)
    \/ \E average \in AudioLevels : RenderFrame(average)

SpecCtx == Init /\ [][NextCtx]_vars

\* The controller reset while it is asked for animations.
NextReset ==
    \/ \E c \in CallIds : TriggerContextualAnimation(c, Animation("happy", 8000, 500))
    \/ ResetContext
    \/ Clockwork

SpecReset == Init /\ [][NextReset]_vars

\* The first connection, its pongs and the periodic cleanup.
NextClean ==
    \/ \E s \in SocketIds : SocketOpen(s)
    \/ \E latency \in Latencies : RecordLatency(latency)
    \/ LatencyCleanup

SpecClean == Init /\ [][NextClean]_vars

\* The durations a caller asks keyframes for, in ms: of 3, 4, 6 and 9 frames
\* and the 2 s of 120 frames the method takes when none is given.
KeyframeDurations == {50, 66, 100, 150, 2000}

\* The easing types a caller names: the five of easingFunctions, one that
\* is none and members of Object.prototype.
EasingTypes ==
    easingFunctions \cup {"no_such_easing", "constructor", "isPrototypeOf", "toString",
                          "valueOf", "hasOwnProperty", "__proto__"}

\* The progress a caller gives, in quarters: from below 0 to above 1.
Progresses == {[num |-> n, den |-> 4] : n \in -1..5}

\* The parameters a caller names: the sixteen of standardParameters, one
\* that is none and members of Object.prototype.
ParameterIds == DOMAIN standardParameters \cup {"ParamCheek", "constructor", "__proto__"}

\* The values a caller hands in: -50.0, -0.5, 0, 0.5, 2.0 and 50.0.
ParameterValues == {-50000, -500, 0, 500, 2000, 50000}

\* Parameters a caller creates an expression from that the mapping has no
\* bounds for: a parameter of its own and a name standardParameters inherits.
UnboundedParameters ==
    ("ParamCheek" :> 2000) @@ ("constructor" :> 500) @@ ("ParamBreath" :> 2000)

\* The mapping with expressions of parameters it has no bounds for.
NextCustom ==
    \/ \E name \in {"wink", "__proto__"} : CreateCustomExpression(name, UnboundedParameters)
    \/ \E expression \in {"wink", "happy", "constructor", "ParamCheek", "ParamBreath"},
          intensity \in Intensities : GetExpressionParameters(expression, intensity)
    \/ \E expression \in {"wink", "constructor", "__proto__"} : ExportExpression(expression)
    \/ ImportExported
    \/ \E progress \in Progresses :
          InterpolateParameters(UnboundedParameters, [ParamBreath |-> 0],
                                progress.num, progress.den, "linear")

SpecCustom == Init /\ [][NextCustom]_vars

\* A caller of createAnimationKeyframes(), of interpolateParameters() and of
\* validateParameter().
NextKey ==
    \/ \E paramId \in ParameterIds, value \in ParameterValues :
          ValidateParameter(paramId, value)
    \/ \E expression \in ExpressionNames, duration \in KeyframeDurations,
          intensity \in Intensities :
             CreateAnimationKeyframes(expression, duration, intensity)
    \/ \E progress \in Progresses, easingType \in EasingTypes :
          InterpolateParameters([ParamMouthOpenY |-> 0, ParamEyeLOpen |-> 1000],
                                [ParamMouthOpenY |-> 1000, ParamMouthForm |-> -500],
                                progress.num, progress.den, easingType)

SpecKey == Init /\ [][NextKey]_vars

\* Mouth-sync sessions that follow one another.
NextSync ==
    \/ \E s \in SocketIds : SocketOpen(s)
    \/ \E s \in SocketIds : MouthSyncStart(s)
    \/ \E s \in SocketIds : MouthSyncStop(s)
    \/ Clockwork

SpecSync == Init /\ [][NextSync]_vars

\* The render target asked for an expression it has, for one it has not and
\* for a member of Object.prototype.
NextIdle ==
    \/ \E expression \in {"happy", "excited", "constructor"} :
          TriggerAnimation(Animation(expression, 8000, 500))
    \/ Clockwork

SpecIdle == Init /\ [][NextIdle]_vars

\* The controller analysing the responses itself.
NextSent ==
    \/ \E c \in CallIds, responseData \in UnlabelledResponses : HandleAIResponse(c, responseData)
    \/ ResetContext
    \/ Clockwork

SpecSent == Init /\ [][NextSent]_vars

\* The controller and the render target, with a history that is nearly full.
NextHist ==
    \/ AssignContext(0, IntensityOne \div 2, LongHistory)
    \/ NextAnim

SpecHist == Init /\ [][NextHist]_vars

\* The animation events the server sends on an established connection.
EventMessages ==
    {Message(TRUE, TRUE, "animation_event", e, NoEvent) :
        e \in WellFormedEvents \cup {Event(requiredFields, t, 0) :
                                        t \in {"mouth_sync_update", "sync_timing"}}}

\* The values a caller sets a parameter to: within the bounds [0, 1] of
\* ParamMouthOpenY, 5.0 and -5.0.
SetValues == {500, 5000, -5000}

\* The client receiving animation events while the clock and the render loop
\* run; the server may close the connection.
NextEvt ==
    \/ \E s \in SocketIds : SocketOpen(s)
    \/ \E s \in SocketIds, data \in EventMessages : HandleMessage(s, data)
    \/ \E s \in SocketIds : ServerClose(s, 1001)
    \/ \E value \in SetValues, smooth \in BOOLEAN : SetParameter("ParamMouthOpenY", value, smooth)
    \/ Clockwork

SpecEvt == Init /\ [][NextEvt]_vars

(***************************************************************************)
(* Properties of the connection life cycle                                  *)
(***************************************************************************)
\* The delays of the backoff, in the order of the attempts.
BackoffDelays == <<1000, 2000, 4000, 8000, 16000>>

ReconnectFailedSignalled == "websocketReconnectFailed" \in obs.events

\* C1: an unintentional disconnect (a lost or failed connection, a close by
\* the server with a code other than 1000) that follows k earlier delays
\* since the connection was established schedules exactly the next delay of
\* 1000, 2000, 4000, 8000, 16000 ms and signals no failure; after five
\* delays it schedules none and signals websocketReconnectFailed.
C1_BackoffSequence ==
    op \in {"fail", "close"} =>
        LET before == Len(obs.delays) - Len(obs.scheduled)
        IN IF before < Len(BackoffDelays)
           THEN obs.scheduled = <<BackoffDelays[before + 1]>> /\ ~ReconnectFailedSignalled
           ELSE obs.scheduled = <<>> /\ ReconnectFailedSignalled

\* C2: once disconnect() was called and until the caller invokes connect()
\* or reconnect(), no reconnect timer is pending (one scheduled earlier is
\* cancelled, the close caused by disconnect() schedules none) and no
\* reconnect timer opens a transport.
C2_DisconnectIsFinal ==
    obs.userClosed => timers.reconnect = 0 /\ ~(op = "reconnectTimer" /\ obs.attempt)

\* C3: a connect() of the caller while the client is connecting or connected
\* changes neither the client, nor its transports, nor its timers.
C3_ConnectIdempotent ==
    [][(/\ op' = "connect"
        /\ \/ CurrentState(World) = "CONNECTING"
           \/ client.isConnected /\ CurrentState(World) = "OPEN")
       => UNCHANGED <<client, sockets, timers>>]_vars

\* C4: after websocketReconnectFailed was signalled and until the caller
\* invokes connect() or reconnect() (or a connection opens), no reconnect
\* timer opens a transport.
C4_TerminalIsFinal == obs.terminal => ~(op = "reconnectTimer" /\ obs.attempt)

\* C5: reconnectAttempts is always between 0 and maxReconnectAttempts, and
\* it is 0 in the state a successful open leaves.
C5_AttemptsBounded ==
    /\ client.reconnectAttempts \in 0..maxReconnectAttempts
    /\ op = "open" => client.reconnectAttempts = 0

\* scheduleReconnect() was called with the attempts used up, and gave up.
C5_Witness == client.reconnectAttempts = maxReconnectAttempts /\ ReconnectFailedSignalled

\* C21: while the transport of the client is connecting, a connection
\* timeout of the client is pending; when it fires on a connecting transport
\* the transport is closed as failed, and the close of a failed transport
\* runs scheduleReconnect(): a delay is scheduled or the failure signalled.
C21_TimeoutAbandons ==
    /\ CurrentState(World) = "CONNECTING" => (timers.timeoutArmed \/ timers.timeoutLeaked > 0)
    /\ (op = "connectTimeout" /\ "websocketError" \in obs.events) =>
           /\ sockets[client.ws].readyState = "CLOSING"
           /\ sockets[client.ws].closeCode = BrowserCloseCode.abnormal
    /\ (op = "closed" /\ "websocketError" \in obs.events) =>
           (obs.scheduled # <<>> \/ ReconnectFailedSignalled)

\* C22: sendMessage() returns false, hands nothing to the transport and
\* leaves client, transports and timers as they were unless isConnected is
\* true and the transport is open; then it hands over one message and returns true.
C22_SendNeedsConnection ==
    [][op' = "requestAnimation" =>
          LET connected == /\ client.isConnected
                           /\ client.ws # 0
                           /\ sockets[client.ws].readyState = "OPEN"
          IN /\ obs'.returned = <<connected>>
             /\ Len(obs'.sent) = (IF connected THEN 1 ELSE 0)
             /\ <<client', sockets', timers'>> = <<client, sockets, timers>>]_vars

\* Nothing was sent: isConnected is still true of an older transport, but
\* the transport of the client is connecting.
C22_Witness ==
    /\ op = "requestAnimation"
    /\ obs.returned = <<FALSE>>
    /\ obs.sent = <<>>
    /\ client.isConnected
    /\ CurrentState(World) = "CONNECTING"

(***************************************************************************)
(* Properties of the controller and the render target                       *)
(***************************************************************************)
\* C6: a request made less than 500 ms after an accepted request, which is
\* still waiting for the render target, returns false and starts no call.
C6_SecondRejected ==
    (/\ op = "triggerContextualAnimation"
     /\ \E c \in CallIds \ {obs.call} :
           /\ controller.calls[c].pc # "idle"
           /\ now - controller.calls[c].now < minAnimationInterval)
    => obs.returned = <<FALSE>> /\ obs.call = 0

\* C7: when a call that took the neutral intermediate step returns true, the
\* entry of history before the last one is the neutral animation of
\* intensity 0.5 and duration 0.5 s.
C7_NeutralRecorded ==
    (op = "callResumed" /\ obs.returned = <<TRUE>> /\ obs.intermediate) =>
        LET h == controller.animationHistory
            n == Len(h)
        IN /\ n >= 2
           /\ h[n - 1].expression = "neutral"
           /\ h[n - 1].intensity = 5000
           /\ h[n - 1].duration = 500
           /\ h[n].expression # "neutral"

PixiEndTimers ==
    Cardinality({i \in 1..Len(timers.pending) : timers.pending[i].kind = "pixiAnimationEnd"})

\* C8: at most one completion timer of an animation is pending, and
\* isAnimating is true exactly while one is.
C8_SinglePlaying == PixiEndTimers <= 1 /\ (pixi.isAnimating <=> PixiEndTimers = 1)

\* C27: an animation triggerAnimation() has accepted is played: when true
\* is returned for an animation the server has acknowledged, the animation
\* is the one playing and its completion timer is set; the animations of
\* the queue are started one at a time from its head, in the order requested.
C27_AcceptedIsPlayed ==
    [][/\ (op' = "pixiFetchDone" /\ obs'.returned = <<TRUE>>) =>
              /\ pixi'.isAnimating
              /\ pixi'.currentExpression = obs'.args[1].expression
              /\ Len(timers'.pending) = Len(timers.pending) + 1
       /\ (op' = "pixiFrame" /\ pixi'.animationQueue # pixi.animationQueue) =>
              /\ pixi'.animationQueue = Tail(pixi.animationQueue)
              /\ pixi'.isAnimating
              /\ pixi'.currentExpression = Head(pixi.animationQueue).expression
              /\ Len(timers'.pending) = Len(timers.pending) + 1]_vars

\* The completion timers executeAnimation() has set and that have not run.
CompletionTimers == {i \in 1..Len(timers.pending) : timers.pending[i].kind = "animationEnd"}

\* C28: an animation that is playing returns to idle through its own
\* completion timer and through nothing else: while isAnimating holds exactly
\* one completion timer is pending, set for the duration of the animation
\* when it started; only the callback of that timer ends it; disconnect()
\* and the loss or close of the connection change neither the render target
\* nor any timer; and an animation whose timer is due within the time
\* followed is idle again at last.
C28_PlayingEndsByItsTimer ==
    /\ [](live2d.isAnimating <=> Cardinality(CompletionTimers) = 1)
    /\ [](Cardinality(CompletionTimers) <= 1)
    /\ [][(~live2d.isAnimating /\ live2d'.isAnimating) =>
              /\ op' = "frame"
              /\ timers'.pending =
                    Append(timers.pending,
                           [kind |-> "animationEnd", arg |-> 0,
                            due |-> now + Head(live2d.animationQueue).duration])]_vars
    /\ [][(live2d.isAnimating /\ ~live2d'.isAnimating) => op' = "animationEnd"]_vars
    /\ [][op' \in {"disconnect", "close", "fail", "closed", "open"} =>
              /\ live2d' = live2d
              /\ timers'.pending = timers.pending
              /\ now' = now]_vars
    /\ (live2d.isAnimating /\ \A i \in CompletionTimers : timers.pending[i].due <= MaxTime)
          ~> ~live2d.isAnimating

\* C29: at most one ping interval is active at any time, and while the
\* client is connected exactly one is: every interval that is active sends
\* one ping per 10 s of connection.
C29_OnePingTimer ==
    /\ timers.ping <= 1
    /\ client.isConnected => timers.ping = 1

\* The transports the client has created that are open or connecting.
LiveTransports == {s \in SocketIds : sockets[s].readyState \in {"CONNECTING", "OPEN"}}

\* C30: at most one transport created by the client is open or connecting
\* at any time.
C30_OneLiveTransport == Cardinality(LiveTransports) <= 1

\* C31: reconnect() makes one new attempt with reconnectAttempts at 0, and
\* the later close event of a transport that is no longer the client's own
\* leaves isConnected, clientId, the attempts counted and the reconnect
\* timers as they are.
C31_ReplacedCloseIgnored ==
    [][/\ op' = "reconnect" =>
              /\ obs'.attempt
              /\ client'.reconnectAttempts = 0
              /\ timers'.reconnect = timers.reconnect
       /\ \A s \in SocketIds :
              (/\ op' = "closed"
               /\ sockets[s].readyState = "CLOSING"
               /\ sockets'[s].readyState = "CLOSED"
               /\ s # client.ws) =>
                  /\ client'.isConnected = client.isConnected
                  /\ client'.clientId = client.clientId
                  /\ client'.reconnectAttempts = client.reconnectAttempts
                  /\ timers'.reconnect = timers.reconnect]_vars

\* The animations a handler has appended to the queue of the render target.
QueuedBy(before, after) == SubSeq(after, Len(before) + 1, Len(after))

\* C32: determineAnimation() leaves the queue of the render target alone, and
\* handleAIResponse() appends to it at most one animation of the expression
\* determined, with the clamped intensity determined, and besides it at most
\* one intermediate neutral.
C32_OneAnimationPerResponse ==
    [][/\ op' = "determineAnimation" =>
              /\ live2d'.animationQueue = live2d.animationQueue
              /\ timers'.pending = timers.pending
       /\ op' = "handleAIResponse" =>
              LET added == QueuedBy(live2d.animationQueue, live2d'.animationQueue)
                  animation == obs'.determined[1]
                  wanted == {i \in 1..Len(added) :
                                /\ added[i].expression = animation.expression
                                /\ added[i].intensity = animation.intensity}
                  neutral == {i \in 1..Len(added) : added[i] = Animation("neutral", 5000, 500)}
              IN /\ Cardinality(wanted) <= 1
                 /\ Cardinality(neutral \ wanted) <= 1
                 /\ wanted \cup neutral = 1..Len(added)]_vars

\* The labels SentimentAnalyzer.analyze() returns.
AnalyzerLabels == {"happy", "sad", "angry", "surprised", "neutral"}

\* C33: a response whose sentiment the analyzer has determined is animated
\* with the expression of the same name: that is the expression determined
\* and the one requested from the render target.
C33_LabelIsExpression ==
    [][(op' = "handleAIResponse" /\ obs'.determined[1].sentiment \in AnalyzerLabels) =>
          /\ obs'.determined[1].expression = obs'.determined[1].sentiment
          /\ \A i \in 1..Len(QueuedBy(live2d.animationQueue, live2d'.animationQueue)) :
                QueuedBy(live2d.animationQueue, live2d'.animationQueue)[i].expression
                    \in {"neutral", obs'.determined[1].sentiment}]_vars

\* The event handleAnimationEvent() is invoked with for the message received:
\* the event of an animation_event, the current_animation of a
\* connection_established.
EventHandedOver ==
    IF obs.received.type = "connection_established"
    THEN obs.received.current_animation
    ELSE obs.received.event

\* C34: whenever a message has led to handleAnimationEvent(), the event it
\* was invoked with passes the validation of animation events.
C34_OnlyValidatedEvents ==
    (op = "message" /\ "handleAnimationEvent" \in obs.invoked)
        => _validateAnimationEvent(EventHandedOver)

\* C35: while the render target is idle, with isAnimating false and no
\* completion timer pending, its currentExpression is neutral.
C35_IdleIsNeutral ==
    (~live2d.isAnimating /\ CompletionTimers = {}) => live2d.currentExpression = "neutral"

\* The auto-stop timers of mouth-sync sessions that have not run.
AutoStopTimers(pending) == {i \in 1..Len(pending) : pending[i].kind = "mouthSyncAutoStop"}

\* C36: a mouth-sync session ends by a message or by an auto-stop timer, and
\* not before its audio_duration has elapsed since its own start: its own
\* timer is the one set last, so that no auto-stop timer due later is left
\* pending when a session is ended by one.
C36_OwnAutoStop ==
    [][(client.audioSyncActive /\ ~client'.audioSyncActive) =>
          /\ op' \in {"message", "mouthSyncAutoStop"}
          /\ op' = "mouthSyncAutoStop" =>
                \A i \in AutoStopTimers(timers'.pending) : timers'.pending[i].due <= now']_vars

\* C37: after resetContext() only a request made after the reset sets
\* lastAnimationTime, to the time the request was made, and adds to the
\* history: lastAnimationTime is 0 or no earlier than the reset, and the
\* history is empty while lastAnimationTime is 0.
C37_ResetStays ==
    /\ controller.lastAnimationTime = 0 \/ controller.lastAnimationTime >= obs.resetAt
    /\ controller.lastAnimationTime = 0 => controller.animationHistory = <<>>

\* C38: the cleanup keeps every sample recorded less than five minutes
\* ago; the time followed is shorter than that, so the cleanup removes
\* nothing.
C38_CleanupKeepsRecent ==
    [][(op' = "latencyCleanup" /\ now' < latencyMaxAge) =>
          client'.latencyMeasurements = client.latencyMeasurements]_vars

\* C39: the keyframes createAnimationKeyframes() returns have times that
\* increase strictly from 0 to the duration, so that no tick is in two
\* phases; the first and the last keyframe hold the values of neutral at
\* 0.5, and every keyframe within the middle half holds the target.
C39_KeyframePhases ==
    op = "createAnimationKeyframes" =>
        LET keyframes == obs.returned[1]
            duration == obs.args[2] * 1000
            targetParams == getExpressionParameters(World, obs.args[1], obs.args[3])
            neutralParams == getExpressionParameters(World, "neutral", 5000)
        IN /\ keyframes[1].time = 0
           /\ keyframes[Len(keyframes)].time = duration
           /\ \A k \in 1..(Len(keyframes) - 1) : keyframes[k].time < keyframes[k + 1].time
           /\ \A paramId \in DOMAIN neutralParams :
                 /\ keyframes[1].parameters[paramId] = neutralParams[paramId]
                 /\ keyframes[Len(keyframes)].parameters[paramId] = neutralParams[paramId]
           /\ \A k \in 1..Len(keyframes) :
                 (4 * keyframes[k].time > duration /\ 4 * keyframes[k].time < 3 * duration)
                     => keyframes[k].parameters = targetParams

(***************************************************************************)
(* Properties of message handling                                           *)
(***************************************************************************)
\* An animation_event whose event is absent or lacks one of the three fields.
C9_Rejected(data) ==
    /\ data.type = "animation_event"
    /\ ~data.event.present \/ ~(requiredFields \subseteq data.event.fields)

\* C9: handling a rejected animation_event leaves the render target, the
\* timers of animations and the mouth sync as they were, never invokes
\* handleAnimationEvent, and adds exactly 1 to consecutiveErrors.
C9_RejectedEventIgnored ==
    [][(op' = "message" /\ C9_Rejected(obs'.received)) =>
              /\ live2d' = live2d
              /\ timers'.pending = timers.pending
              /\ client'.audioSyncActive = client.audioSyncActive
              /\ "handleAnimationEvent" \notin obs'.invoked
              /\ client'.consecutiveErrors = client.consecutiveErrors + 1]_vars

\* A rejected animation_event was handled while an animation was queued.
C9_Witness ==
    /\ op = "message"
    /\ C9_Rejected(obs.received)
    /\ Len(live2d.animationQueue) > 0
    /\ client.consecutiveErrors > 0

\* C10: a message that fails validation adds exactly 1 to consecutiveErrors,
\* a message handled by a handler resets it to 0, any other message leaves
\* it; scheduleReconnect() runs (a delay is scheduled or the failure is
\* signalled) exactly when a failing message takes the counter above 5.
C10_ErrorCounter ==
    [][op' = "message" =>
              LET data == obs'.received
                  forced == obs'.scheduled # <<>> \/ "websocketReconnectFailed" \in obs'.events
              IN /\ client'.consecutiveErrors =
                        IF messageThrows(data) THEN client.consecutiveErrors + 1
                        ELSE IF data.type \in eventHandlers THEN 0
                        ELSE client.consecutiveErrors
                 /\ forced <=> (messageThrows(data) /\ client'.consecutiveErrors > 5)]_vars

\* Text that is no JSON, JSON that is no object, an object without a type.
C19_Broken(data) == ~data.parses \/ ~data.isObject \/ data.type = ""

\* C19: a payload that is no JSON, no object or has no type is dropped: no
\* handler is named or invoked, consecutiveErrors grows by exactly 1,
\* ws.onmessage does not reach handleError (nothing was thrown to it), and
\* every socket stays as it was, so later messages are handled.
C19_BrokenDropped ==
    [][(op' = "message" /\ C19_Broken(obs'.received)) =>
              /\ obs'.invoked = {}
              /\ obs'.dispatched = <<>>
              /\ client'.consecutiveErrors = client.consecutiveErrors + 1
              /\ "websocketError" \notin obs'.events
              /\ "messageError" \in obs'.events
              /\ sockets' = sockets]_vars

\* JSON that is no object was dropped as the second failure in a row.
C19_Witness ==
    /\ op = "message"
    /\ obs.received.parses
    /\ ~obs.received.isObject
    /\ obs.invoked = {}
    /\ client.consecutiveErrors = 2

\* The handler registered for each type.
C20_Registered ==
    [connection_established |-> "handleConnectionEstablished",
     animation_event |-> "handleAnimationEvent", heartbeat |-> "handleHeartbeat",
     pong |-> "handlePong", sync_timing |-> "handleSyncTiming"]

\* What handleMessage() does with a well-formed message, but for the client:
\* a type without a handler names and invokes no handler, sends and
\* dispatches nothing and leaves sockets, timers and render target; a type
\* with a handler is handed to the handler registered for it and to no other.
C20_Dispatch(data) ==
    IF data.type \in DOMAIN C20_Registered
    THEN obs'.dispatched = <<data.type>> /\ C20_Registered[data.type] \in obs'.invoked
    ELSE /\ obs'.invoked = {}
         /\ obs'.dispatched = <<>>
         /\ obs'.sent = <<>>
         /\ obs'.events = {}
         /\ <<sockets', timers', live2d'>> = <<sockets, timers, live2d>>

\* A message that passes the checks of handleMessage().
C20_WellFormed(data) ==
    /\ data.parses
    /\ data.isObject
    /\ data.type # ""
    /\ data.type = "animation_event" => _validateAnimationEvent(data.event)

\* C20: a well-formed message of a type without a handler invokes no
\* handler and is no error: consecutiveErrors and all other client state are
\* unchanged; a message of a recognised type is dispatched to exactly the
\* one handler registered for its type.
C20_UnknownTypeIgnored ==
    [][(op' = "message" /\ C20_WellFormed(obs'.received)) =>
              /\ C20_Dispatch(obs'.received)
              /\ obs'.received.type \notin DOMAIN C20_Registered => client' = client]_vars

\* C25: the latency buffer never holds more than 20 samples; a sample
\* recorded into a buffer of fewer than 20 is appended, one recorded into a
\* full buffer evicts the oldest sample and keeps the order of the others.
C25_LatencyBuffer ==
    [][op' = "recordLatency" =>
          LET buffer == client.latencyMeasurements
              latency == obs'.args[1]
          IN /\ Len(client'.latencyMeasurements) <= 20
             /\ IF Len(buffer) = 20
                THEN /\ client'.latencyMeasurements = Tail(buffer) \o <<latency>>
                     /\ obs'.shifted = <<buffer[1]>>
                ELSE /\ client'.latencyMeasurements = buffer \o <<latency>>
                     /\ obs'.shifted = <<>>]_vars

\* A usual sample was recorded into a full buffer: the oldest, a fast one,
\* was evicted and the other fast one moved up.
C25_Witness ==
    /\ op = "recordLatency"
    /\ obs.shifted = <<FastLatency>>
    /\ Len(client.latencyMeasurements) = 20
    /\ client.latencyMeasurements[10] = FastLatency
    /\ client.latencyMeasurements[20] = 40

(***************************************************************************)
(* Properties of the animation events                                       *)
(***************************************************************************)
\* The sequence_ids of the animation_complete messages the handler now running sent.
CompletionsSent ==
    LET completions == SelectSeq(obs.sent, LAMBDA m : m.type = "animation_complete")
    IN [i \in 1..Len(completions) |-> completions[i].sequence_id]

\* C11: when the handler of an animation event has finished, an
\* animation_complete message with the sequence_id of the event is sent if
\* the event carried one, and none is sent if it carried none.
C11_CompletionSent ==
    CompletionsSent = SelectSeq(obs.finished, LAMBDA q : q # 0)

\* C13: every target value of a parameter lies within the bounds
\* [min, max] declared for the parameter.
C13_ParametersInRange ==
    \A p \in Params :
        /\ live2d.parameterTargets[p] >= standardParameters[p].min
        /\ live2d.parameterTargets[p] <= standardParameters[p].max

\* C14: setParameter() with a value outside the bounds declared for the
\* parameter stores the nearest bound, with and without smoothing.
C14_SetParameterClamps ==
    op = "setParameter" =>
        LET paramId == obs.args[1]
            value == obs.args[2]
            bounds == standardParameters[paramId]
        IN live2d.parameterTargets[paramId] =
               IF value > bounds.max THEN bounds.max
               ELSE IF value < bounds.min THEN bounds.min
               ELSE value

(***************************************************************************)
(* Properties of the conversation context                                   *)
(***************************************************************************)
\* What determineAnimation() returned in the handler now running.
Determined == {obs.determined[i] : i \in 1..Len(obs.determined)}

\* The intensity of confidence after the engagement and repetition modifiers.
AfterOtherModifiers(a, confidence) ==
    LET engagement == controller.conversationContext.engagement
        engaged == IF engagement > 7000 THEN (confidence * 11) \div 10
                   ELSE IF engagement < 3000 THEN (confidence * 8) \div 10
                   ELSE confidence
    IN IF repeatedCount(controller.animationHistory, a.expression) >= 2
       THEN (engaged * 7) \div 10
       ELSE engaged

\* C12: the first response handled in a context (the response count is 1
\* once it is handled) is given the intensity that starts from confidence x
\* 1.2, and a later response the intensity that starts from the confidence.
C12_FirstResponseBoosted ==
    op = "handleAIResponse" =>
        \A a \in Determined :
            a.intensity =
                IF controller.conversationContext.responseCount = 1
                THEN Clamp(3000, IntensityOne, AfterOtherModifiers(a, (a.confidence * 12) \div 10))
                ELSE Clamp(3000, IntensityOne, AfterOtherModifiers(a, a.confidence))

\* C15: every intensity determineAnimation() returns lies within [0.3, 1.0].
C15_IntensityInRange ==
    \A a \in Determined : a.intensity >= 3000 /\ a.intensity <= IntensityOne

\* A confidence of 0.25 in a later response at low engagement: 0.2 before the clamp.
C15_Witness ==
    /\ op = "determineAnimation"
    /\ controller.conversationContext.engagement < 3000
    /\ controller.conversationContext.responseCount > 0
    /\ \E a \in Determined : a.confidence = 2500 /\ a.intensity = 3000

\* The intensity of confidence after the first-interaction and engagement modifiers.
Unrepeated(confidence) ==
    LET context == controller.conversationContext
        first == IF context.responseCount = 0 THEN (confidence * 12) \div 10 ELSE confidence
    IN IF context.engagement > 7000 THEN (first * 11) \div 10
       ELSE IF context.engagement < 3000 THEN (first * 8) \div 10
       ELSE first

\* The expression occurs at least twice among the last three entries of the history.
RepeatedInLastThree(expression) ==
    LET h == controller.animationHistory
    IN \E i, j \in 1..Len(h) : /\ i < j
                               /\ i > Len(h) - 3
                               /\ h[i].expression = expression
                               /\ h[j].expression = expression

\* C16: the intensity is multiplied by 0.7 exactly when the expression
\* chosen occurs at least twice among the last 3 entries of the history;
\* with the history [happy, happy], no first-interaction boost and an
\* engagement between 0.3 and 0.7 a happy decision of confidence c has the
\* intensity c x 0.7, clamped.
C16_RepeatedExpressionDamped ==
    op = "determineAnimation" =>
        \A a \in Determined :
            /\ a.intensity = Clamp(3000, IntensityOne,
                                   IF RepeatedInLastThree(a.expression)
                                   THEN (Unrepeated(a.confidence) * 7) \div 10
                                   ELSE Unrepeated(a.confidence))
            /\ ( /\ controller.animationHistory = <<HistoryEntry("happy"), HistoryEntry("happy")>>
                 /\ controller.conversationContext.responseCount > 0
                 /\ controller.conversationContext.engagement \in 3000..7000
                 /\ a.expression = "happy" )
               => a.intensity = Clamp(3000, IntensityOne, (a.confidence * 7) \div 10)

\* A happy decision of confidence 0.8 after [happy, happy]: intensity 0.56.
C16_Witness ==
    /\ op = "determineAnimation"
    /\ controller.animationHistory = <<HistoryEntry("happy"), HistoryEntry("happy")>>
    /\ controller.conversationContext.responseCount > 0
    /\ controller.conversationContext.engagement = 5000
    /\ \E a \in Determined : a.expression = "happy" /\ a.confidence = 8000 /\ a.intensity = 5600

\* C17: isValidTransition(from, to) returns true exactly when from is unset
\* or neutral, or to is in the adjacency list of from; every other call that
\* returns returns false, and the calls that do not return are those whose
\* from names a member the rules inherit, which has no includes().
C17_TransitionTable ==
    op = "isValidTransition" =>
        LET from == obs.args[1]
            to == obs.args[2]
            listed == \/ from \in {"", "neutral"}
                      \/ from = "happy" /\ to \in {"neutral", "surprised", "speak"}
                      \/ from = "sad" /\ to \in {"neutral", "angry"}
                      \/ from = "angry" /\ to \in {"neutral", "sad"}
                      \/ from = "surprised" /\ to \in {"happy", "neutral"}
                      \/ from = "speak" /\ to \in {"neutral", "happy"}
        IN /\ obs.returned = <<TRUE>> <=> listed
           /\ obs.returned = <<>> <=> obs.thrown
           /\ obs.thrown <=> from \in ObjectPrototype
           /\ ~obs.thrown => obs.returned = <<listed>>

\* angry -> happy is asked and refused.
C17_Witness ==
    op = "isValidTransition" /\ obs.args = <<"angry", "happy">> /\ obs.returned = <<FALSE>>

\* C18: animationHistory never holds more than 10 entries; it changes only
\* when a call of triggerContextualAnimation() returns true, by the entry of
\* the animation that was started, and when that is the 11th entry the
\* oldest entry is removed.
C18_HistoryBounded ==
    [][/\ Len(controller'.animationHistory) <= 10
       /\ (controller'.animationHistory # controller.animationHistory /\ op' # "assignContext")
              => (op' = "callResumed" /\ obs'.returned = <<TRUE>>)
       /\ (op' = "callResumed" /\ obs'.returned = <<TRUE>>)
              => LET h == controller.animationHistory
                     started == controller.calls[obs'.call].animation
                     entry == [expression |-> started.expression, intensity |-> started.intensity,
                               duration |-> started.duration, timestamp |-> now']
                 IN controller'.animationHistory =
                        IF Len(h) = 10 THEN Tail(h) \o <<entry>> ELSE h \o <<entry>>]_vars

\* The 11th entry was appended: the oldest of the nine assigned is gone.
C18_Witness ==
    /\ op = "callResumed"
    /\ obs.returned = <<TRUE>>
    /\ Len(controller.animationHistory) = 10
    /\ controller.animationHistory[1] = LongHistory[2]

\* C26: when the animation_complete of an expression_change is sent and no
\* promise of a triggerAnimation() is pending, so that the animation of the
\* event is the last one requested, the animation has been played: the
\* queue of the render target is empty and no animation is playing.
C26_CompleteAfterPlayed ==
    (/\ op = "expressionChanged"
     /\ CompletionsSent # <<>>
     /\ \A i \in 1..Len(timers.pending) :
           timers.pending[i].kind \notin {"expressionChanged", "dropped", "callResumed"})
    => (Len(live2d.animationQueue) = 0 /\ ~live2d.isAnimating)

(***************************************************************************)
(* Properties of Live2DParameterMapping                                     *)
(***************************************************************************)
\* C23: getExpressionParameters(name, intensity) returns, for each parameter
\* of the expression name in the table, its value times the intensity
\* clamped to the bounds of the parameter; a name the table does not have
\* gives what neutral gives at that intensity; the table stays as it is.
C23_ScaledAndClamped ==
    [][op' = "getExpressionParameters" =>
          LET table == mapping.expressions
              intensity == obs'.args[2]
              name == IF obs'.args[1] \in DOMAIN table THEN obs'.args[1] ELSE "neutral"
              clamped(p) ==
                  LET x == (table[name][p] * intensity) \div IntensityOne
                      low == standardParameters[p].min
                      high == standardParameters[p].max
                  IN IF x < low THEN low ELSE IF x > high THEN high ELSE x
          IN /\ obs'.returned = <<[p \in DOMAIN table[name] |-> clamped(p)]>>
             /\ mapping' = mapping]_vars

\* C24: importExpression(exportExpression(name)) for a name of the table
\* leaves the parameter map of the name and every other expression as they were.
C24_ExportImportRoundTrip ==
    [][(/\ op = "exportExpression"
        /\ op' = "importExpression"
        /\ obs'.args = obs.returned
        /\ obs.args[1] \in DOMAIN mapping.expressions)
       => /\ DOMAIN mapping'.expressions = DOMAIN mapping.expressions
          /\ \A name \in DOMAIN mapping.expressions :
                mapping'.expressions[name] = mapping.expressions[name]]_vars

\* The export of surprised, whose eyes are wider than the bounds, was imported.
C24_Witness ==
    /\ op = "importExpression"
    /\ ~obs.thrown
    /\ obs.returned = <<TRUE>>
    /\ obs.args[1].name = "surprised"
    /\ obs.args[1].parameters = mapping.expressions["surprised"]
    /\ mapping.expressions["surprised"].ParamEyeLOpen = 1200
====
